---- MODULE Spec2Model ----
(***************************************************************************)
(* Model of the collection reconciliation engine of                        *)
(* Emby-MDBList-Collection-Creator: process_list, set_poster and the run    *)
(* loop of src/modules/mdblist.py.  One ProcessList step is one whole call  *)
(* of process_list; the media server, the list service and the poster      *)
(* cache are the collaborators the code calls.                             *)
(***************************************************************************)
EXTENDS Integers, Sequences, FiniteSets, TLC

VARIABLES
    lists,          \* the list dictionaries a cycle hands to process_list
    collections,    \* media server: collection name -> [exists, members]
    posterCache,    \* db_manager: collection id -> last poster path written
    uploaded,       \* history: collection id -> poster paths whose upload succeeded
    newly_added,    \* global counter (mdblist.py:25)
    newly_removed,  \* global counter (mdblist.py:26)
    all_collections_ids,                \* global list (mdblist.py:28)
    collection_ids_with_custom_sorting, \* global list (mdblist.py:27)
    idx,            \* position of run() in the lists of the cycle
    settled,        \* history: list -> the desired set of its last complete, fault-free pass
    createdByPass,  \* history: names of the collections a pass created
    last,           \* the record of the last process_list call
    settings,       \* which program runs, and its [admin] options
    phase,          \* where the main loop is: "check", "backoff", "lists", "refresh", ...
    sweep,          \* position of the main loop in all_collections_ids
    checks,         \* app.py: the connectivity checks of the current attempt
    dates,          \* media server: item id -> its DateCreated and PremiereDate
    processed_items, \* Refresher.processed_items (refresher.py:21)
    refreshes,      \* history: the item ids of the refresh_item calls, in order
    lastRefresh,    \* the record of the last Refresher.process_collection call
    cycleLog        \* history: the process_list calls of the current cycle

\* What a process_list call may change.
passVars == <<collections, posterCache, uploaded, newly_added, newly_removed,
              all_collections_ids, collection_ids_with_custom_sorting,
              settled, createdByPass, last>>
\* The configuration and the library.
configVars == <<lists, settings, dates>>
\* The Refresher.
refresherVars == <<processed_items, refreshes, lastRefresh>>
\* The position of the main loop.
loopVars == <<idx, phase, sweep, checks>>

vars == <<passVars, configVars, refresherVars, loopVars, cycleLog>>

----------------------------------------------------------------------------
\* Bounds of the model.

\* Items of the library: local ids LocalBase+1 .. LocalBase+MaxItems.
MaxItems == 2
\* Calls that may fail during one process_list call.
MaxFaults == 1

\* Entries of collection_ids_with_custom_sorting up to which app.py is followed.
MaxTracked == 2

\* Characters of the longest description the list service gives.
MaxText == 3

\* Program constants.
RandLow == 0
RandHigh == 100
DefaultFrequency == 100
ForcedFrequency == 100

----------------------------------------------------------------------------
\* Values.

\* Python's None for strings (sequences of characters) and for paths and ids.
NoneStr == <<"None">>
NonePath == "<None>"
NoneId == 0

\* External (IMDB) identifiers: 1..MaxItems are in the library, MaxItems+1 is not.
LibraryImdbIds == 1 .. MaxItems
ImdbIds == 1 .. (MaxItems + 1)
\* The media server's local id of the library item with IMDB id x, and back.
LocalIdOf(x) == 10 + x
ImdbOf(l) == l - 10
LocalIds == {LocalIdOf(x) : x \in LibraryImdbIds}

RECURSIVE SetToSeq(_)
SetToSeq(S) ==
    IF S = {} THEN <<>>
    ELSE LET x == CHOOSE y \in S : \A z \in S : y <= z
         IN  <<x>> \o SetToSeq(S \ {x})

Range(s) == {s[i] : i \in 1 .. Len(s)}

\* Collection names (character sequences).
NameXmas == <<"X", "m", "a", "s">>
NameTheAB == <<"T", "h", "e", " ", "A", " ", "B">>
NameAlien == <<"A", "l", "i", "e", "n">>
NameACol == <<"A", " ", "C", "o", "l">>
NameAnOld == <<"a", "n", " ", "O", "l", "d">>
AllNames == <<NameXmas, NameTheAB, NameAlien, NameACol, NameAnOld>>

\* The server-assigned id of the collection called name.
CollectionIdOf(name) == 100 + (CHOOSE i \in 1 .. Len(AllNames) : AllNames[i] = name)
CollectionIds == {CollectionIdOf(AllNames[i]) : i \in 1 .. Len(AllNames)}

----------------------------------------------------------------------------
\* Strings: Python str as a sequence of one-character strings.

Lower(c) ==
    CASE c = "A" -> "a" [] c = "B" -> "b" [] c = "C" -> "c" [] c = "O" -> "o"
      [] c = "T" -> "t" [] c = "X" -> "x" [] OTHER -> c

LowerStr(s) == [i \in 1 .. Len(s) |-> Lower(s[i])]

StartsWith(s, prefix) ==
    /\ Len(prefix) <= Len(s)
    /\ SubSeq(s, 1, Len(prefix)) = prefix

EndsWith(s, suffix) ==
    /\ Len(suffix) <= Len(s)
    /\ SubSeq(s, Len(s) - Len(suffix) + 1, Len(s)) = suffix

\* s[n:]
DropFirst(s, n) == SubSeq(s, n + 1, Len(s))

Digit(d) ==
    CASE d = 0 -> "0" [] d = 1 -> "1" [] d = 2 -> "2" [] d = 3 -> "3" [] d = 4 -> "4"
      [] d = 5 -> "5" [] d = 6 -> "6" [] d = 7 -> "7" [] d = 8 -> "8" [] OTHER -> "9"

\* str(n) for n >= 0, as an f-string formats it.
RECURSIVE IntToStr(_)
IntToStr(n) ==
    IF n < 10 THEN <<Digit(n)>> ELSE IntToStr(n \div 10) \o <<Digit(n % 10)>>

\* unwanted_words of process_list.
UnwantedWords ==
    << <<"t", "h", "e">>, <<"a">>, <<"a", "n">>, <<"d", "a", "s">>,
       <<"d", "e", "r">>, <<"e", "l">>, <<"l", "a">> >>

\* One turn of the loop over unwanted_words: the name without the word and its
\* space when the lower-cased name starts with them.
StripWordNoSpace(name, word) ==
    IF StartsWith(LowerStr(name), word) THEN DropFirst(name, Len(word) + 1) ELSE name
StripWord(name, word) ==
    LET word_with_space == word \o <<" ">>
    IN  IF StartsWith(LowerStr(name), word_with_space)
        THEN DropFirst(name, Len(word_with_space))
        ELSE name

\* The whole loop, from the i-th word on.
RECURSIVE StripFrom(_, _)
StripFrom(name, i) ==
    IF i > Len(UnwantedWords) THEN name
    ELSE StripFrom(StripWord(name, UnwantedWords[i]), i + 1)

StripArticles(name) == StripFrom(name, 1)

\* strip_quotes.
strip_quotes(text) ==
    IF text = NoneStr \/ text = <<>> THEN text
    ELSE IF \/ (StartsWith(text, <<"\"">>) /\ EndsWith(text, <<"\"">>))
            \/ (StartsWith(text, <<"'">>) /\ EndsWith(text, <<"'">>))
         THEN SubSeq(text, 2, Len(text) - 1)
         ELSE text

----------------------------------------------------------------------------
\* The media server (Emby connector) and the poster cache (Db), at their
\* interface: what each call returns and changes.

\* get_collection_id(name)
EmbyGetCollectionId(colls, name) ==
    IF colls[name].exists THEN CollectionIdOf(name) ELSE NoneId

\* get_items_in_collection(id, fields): the members, each with Id and Imdb.
EmbyItemsInCollection(colls, name) == colls[name].members

\* get_items_with_imdb_id(imdb_ids, media types): the local ids of those in the library.
EmbyItemsWithImdbId(imdb_ids) == {LocalIdOf(x) : x \in imdb_ids \cap LibraryImdbIds}

\* create_collection(name, items)
EmbyCreateCollection(colls, name, items) ==
    [colls EXCEPT ![name] = [exists |-> TRUE, members |-> items]]

\* add_to_collection(name, items)
EmbyAddToCollection(colls, name, items) ==
    [colls EXCEPT ![name].members = @ \cup items]

\* The items an add_to_collection call for the items add may add: all of them,
\* none of them, or some and not all of them (the count it returns is their
\* number).
AddedBy(outcome, add) ==
    CASE outcome = "ok" -> {add}
      [] outcome = "AddPartial" -> {done \in SUBSET add : done # {} /\ done # add}
      [] OTHER -> {{}}

\* delete_from_collection(name, items)
EmbyDeleteFromCollection(colls, name, items) ==
    [colls EXCEPT ![name].members = @ \ items]

\* find_missing_entries_in_list(list_to_check, list_to_find): the entries of
\* list_to_find that list_to_check lacks.
find_missing_entries_in_list(list_to_check, list_to_find) ==
    list_to_find \ list_to_check

\* minutes_until_2100() at the moments a pass may run.
MinutesUntil2100 == {7, 42}

----------------------------------------------------------------------------
\* The record of one process_list call and the program state it works on.

Unbound == -1

Call(op, items, text, path) == [op |-> op, items |-> items, text |-> text, path |-> path]

Log(p, op, items, text, path) ==
    [p EXCEPT !.calls = Append(@, Call(op, items, text, path))]

Hit(p, fault) == [p EXCEPT !.faults = @ \cup {fault}]

\* The outcomes of a call that may fail in the ways of kinds: "ok" always,
\* a failure while the pass has had fewer than MaxFaults of them.
Outcomes(p, kinds) ==
    {"ok"} \cup (IF Cardinality(p.faults) < MaxFaults THEN kinds ELSE {})

\* All orders of a finite set.
Orders(S) ==
    {s \in [1 .. Cardinality(S) -> S] : \A a, b \in 1 .. Cardinality(S) : a # b => s[a] # s[b]}

\* The program state at the start of a step, as a record the stages update.
Now ==
    [collections |-> collections, posterCache |-> posterCache, uploaded |-> uploaded,
     newly_added |-> newly_added, newly_removed |-> newly_removed,
     all_collections_ids |-> all_collections_ids,
     collection_ids_with_custom_sorting |-> collection_ids_with_custom_sorting,
     createdByPass |-> createdByPass]

NewPass(i, cfg, collection_id) ==
    [list |-> i, name |-> cfg.name, frequency |-> cfg.frequency,
     existed |-> collection_id # NoneId,
     members0 |-> collections[cfg.name].members,
     owed0 |-> settled[i].owed,
     poster0 |-> posterCache[CollectionIdOf(cfg.name)],
     window |-> "none", draw |-> Unbound, outcome |-> "Running",
     D |-> {}, repeat |-> FALSE, missing |-> {}, resolved |-> <<>>, add_emby_ids |-> <<>>,
     remove_emby_ids |-> {}, created |-> FALSE,
     items_added |-> Unbound, items_removed |-> Unbound,
     calls |-> <<Call("get_collection_id", {}, cfg.name, NonePath)>>,
     faults |-> {}]

\* No call of process_list is under way.
NoPass ==
    [list |-> 0, name |-> <<>>, frequency |-> 0, existed |-> FALSE, members0 |-> {},
     owed0 |-> {}, poster0 |-> NonePath,
     window |-> "none", draw |-> Unbound, outcome |-> "None",
     D |-> {}, repeat |-> FALSE, missing |-> {}, resolved |-> <<>>, add_emby_ids |-> <<>>,
     remove_emby_ids |-> {}, created |-> FALSE,
     items_added |-> Unbound, items_removed |-> Unbound, calls |-> <<>>, faults |-> {}]

\* The items the list still owes its collection: those the last call that
\* resolved items wanted in the collection and that are not members of it.
Owed(i, s, p) ==
    IF p.resolved = <<>> THEN settled[i].owed
    ELSE Range(p.resolved) \ s.collections[p.name].members

\* The end of a process_list call: the state it leaves and, until the caller
\* goes on, the call's own record.
Leave(i, s, p, outcome) ==
    /\ collections' = s.collections
    /\ posterCache' = s.posterCache
    /\ uploaded' = s.uploaded
    /\ newly_added' = s.newly_added
    /\ newly_removed' = s.newly_removed
    /\ all_collections_ids' = s.all_collections_ids
    /\ collection_ids_with_custom_sorting' = s.collection_ids_with_custom_sorting
    /\ createdByPass' = s.createdByPass
    /\ last' = [p EXCEPT !.outcome = outcome]
    /\ settled' = [settled EXCEPT ![i] =
                      IF outcome = "Done" /\ p.faults = {}
                      THEN [ok |-> TRUE, D |-> p.D, owed |-> Owed(i, s, p)]
                      ELSE [ok |-> FALSE, D |-> {}, owed |-> Owed(i, s, p)]]
    /\ cycleLog' = Append(cycleLog,
                          [list |-> i, failed |-> p.faults # {},
                           touched |->
                               IF \E k \in 1 .. Len(p.calls) : p.calls[k].op = "add_to_collection"
                               THEN CollectionIdOf(p.name) ELSE NoneId])
    /\ UNCHANGED <<configVars, refresherVars>>

\* process_list returns, or raises into a caller that catches the exception.
Return(i, s, p, outcome) ==
    /\ Leave(i, s, p, outcome)
    /\ UNCHANGED loopVars

\* process_list of app.py raises: nothing up to main() catches the exception,
\* and the program ends.
Crash(i, s, p) ==
    /\ Leave(i, s, p, "Crashed")
    /\ phase' = "crashed"
    /\ UNCHANGED <<idx, sweep, checks>>

----------------------------------------------------------------------------
\* process_list, stage by stage, last stage first.

\* Collection description (lines 465-482).
UseMdbDescriptionOverOverwrite(cfg, use_mdb) ==
    /\ use_mdb
    /\ cfg.description # NoneStr /\ cfg.description # <<>>
UseMdbDescription(cfg, use_mdb) ==
    /\ use_mdb
    /\ cfg.description # NoneStr /\ cfg.description # <<>>
    /\ cfg.overwrite_description = NoneStr

UseOverwriteDescription(cfg) ==
    cfg.overwrite_description # NoneStr /\ cfg.overwrite_description # <<>>

Description(i, cfg, s, p) ==
    IF UseMdbDescription(cfg, cfg.use_mdb_description)
    THEN \E r \in Outcomes(p, {"PropertyRaise"}) :
            LET q == Log(p, "set_item_property:Overview", {}, strip_quotes(cfg.description), NonePath)
            IN  Return(i, s, IF r = "ok" THEN q ELSE Hit(q, r), "Done")
    ELSE IF UseOverwriteDescription(cfg)
    THEN \E r \in Outcomes(p, {"PropertyRaise"}) :
            LET q == Log(p, "set_item_property:Overview", {},
                         strip_quotes(cfg.overwrite_description), NonePath)
            IN  Return(i, s, IF r = "ok" THEN q ELSE Hit(q, r), "Done")
    ELSE Return(i, s, p, "Done")

\* Collection sort name (lines 430-463).
\* The membership test of the date branch; reading a counter that was never
\* bound raises, and Python's "or" reads items_removed only when the first
\* comparison is false.
ChangedRaises(items_added, items_removed) ==
    \/ items_added = Unbound
    \/ (items_added <= 0 /\ items_removed = Unbound)

Changed(items_added, items_removed) == items_added > 0 \/ items_removed > 0

BaseSortName(cfg) ==
    IF cfg.collection_sort_name = NoneStr THEN cfg.name ELSE cfg.collection_sort_name

DateSortName(minutes, name) == <<"!">> \o IntToStr(minutes) \o <<" ">> \o name

PrefixSortName(prefix, name) == prefix \o <<" ">> \o name

\* "date", "prefix", "none" or "raise": the branch lines 446-455 take.
SortBranchPrefixFirst(cfg, items_added, items_removed) ==
    IF cfg.collection_sort_prefix # NoneStr THEN "prefix"
    ELSE IF cfg.collection_sort_date /\ ChangedRaises(items_added, items_removed) THEN "raise"
    ELSE IF cfg.collection_sort_date /\ Changed(items_added, items_removed) THEN "date"
    ELSE "none"
SortBranchPrefixOnChange(cfg, items_added, items_removed) ==
    IF cfg.collection_sort_date /\ ChangedRaises(items_added, items_removed) THEN "raise"
    ELSE IF cfg.collection_sort_date /\ Changed(items_added, items_removed) THEN "date"
    ELSE IF cfg.collection_sort_prefix # NoneStr /\ Changed(items_added, items_removed)
    THEN "prefix"
    ELSE "none"
SortBranch(cfg, items_added, items_removed) ==
    IF cfg.collection_sort_date /\ ChangedRaises(items_added, items_removed) THEN "raise"
    ELSE IF cfg.collection_sort_date /\ Changed(items_added, items_removed) THEN "date"
    ELSE IF cfg.collection_sort_prefix # NoneStr THEN "prefix"
    ELSE "none"

SortName(i, cfg, s, p) ==
    LET stripped == StripArticles(BaseSortName(cfg))
        branch == SortBranch(cfg, p.items_added, p.items_removed)
    IN  CASE branch = "date" ->
               \E minutes \in MinutesUntil2100, r \in Outcomes(p, {"PropertyRaise"}) :
                  LET q == Log(p, "set_item_property:ForcedSortName", {},
                               DateSortName(minutes, stripped), NonePath)
                  IN  Description(i, cfg, s, IF r = "ok" THEN q ELSE Hit(q, r))
          [] branch = "prefix" ->
               \E r \in Outcomes(p, {"PropertyRaise"}) :
                  LET q == Log(p, "set_item_property:ForcedSortName", {},
                               PrefixSortName(cfg.collection_sort_prefix, stripped), NonePath)
                  IN  Description(i, cfg, s, IF r = "ok" THEN q ELSE Hit(q, r))
          [] OTHER -> Description(i, cfg, s, p)

\* set_poster (lines 97-134): the state and the record after it.
PosterSkipped(cache, collection_id, poster_path) ==
    \/ poster_path = NonePath \/ poster_path = ""
    \/ poster_path = cache[collection_id]

\* Whether the cache entry is written after set_image ended with result r.
PosterCacheWrittenAlways(r) == TRUE
PosterCacheWrittenUnlessRaised(r) == r # "ImageRaise"
PosterCacheWritten(r) == r = "ok"

SetPoster(i, cfg, s, p) ==
    LET collection_id == CollectionIdOf(cfg.name)
    IN  IF PosterSkipped(s.posterCache, collection_id, cfg.poster)
        THEN SortName(i, cfg, s, p)
        ELSE \E r \in Outcomes(p, {"ImageFalse", "ImageRaise"}) :
                LET q == Log(p, "set_image", {}, <<>>, cfg.poster)
                    s1 == IF r = "ok"
                          THEN [s EXCEPT !.uploaded[collection_id] = @ \cup {cfg.poster}]
                          ELSE s
                    s2 == IF PosterCacheWritten(r)
                          THEN [s1 EXCEPT !.posterCache[collection_id] = cfg.poster]
                          ELSE s1
                IN  SortName(i, cfg, s2, IF r = "ok" THEN q ELSE Hit(q, r))

\* Add and remove items (lines 415-425).  A raise of the add call leaves the
\* try block before the remove call.
Mutate(i, cfg, s, p) ==
    LET add == Range(p.add_emby_ids)
        p1 == Log(p, "add_to_collection", add, cfg.name, NonePath)
    IN  \E ra \in Outcomes(p, {"AddRaise", "AddNone", "AddPartial"}) :
           IF ra = "AddRaise"
           THEN SetPoster(i, cfg, s, Hit(p1, ra))
           ELSE \E done \in AddedBy(ra, add) :
                LET items_added == Cardinality(done)
                    sa == [s EXCEPT
                             !.collections = EmbyAddToCollection(@, cfg.name, done),
                             !.newly_added = @ + items_added]
                    pa == [(IF ra = "ok" THEN p1 ELSE Hit(p1, ra)) EXCEPT
                             !.items_added = items_added]
                    p2 == Log(pa, "delete_from_collection", p.remove_emby_ids, cfg.name, NonePath)
                IN  \E rd \in Outcomes(pa, {"DeleteRaise", "DeleteNone"}) :
                       IF rd = "DeleteRaise"
                       THEN SetPoster(i, cfg, sa, Hit(p2, rd))
                       ELSE LET items_removed ==
                                    IF rd = "ok" THEN Cardinality(p.remove_emby_ids) ELSE 0
                                sd == [sa EXCEPT
                                         !.collections =
                                             IF rd = "ok"
                                             THEN EmbyDeleteFromCollection(@, cfg.name, p.remove_emby_ids)
                                             ELSE @,
                                         !.newly_removed = @ + items_removed]
                                pd == [(IF rd = "ok" THEN p2 ELSE Hit(p2, rd)) EXCEPT
                                         !.items_removed = items_removed]
                            IN  SetPoster(i, cfg, sd, pd)

\* Track collection for later processing (lines 408-413).
AppendIfAbsent(ids, collection_id) ==
    IF \E k \in 1 .. Len(ids) : ids[k] = collection_id THEN ids ELSE Append(ids, collection_id)

Track(i, cfg, s, p) ==
    LET collection_id == CollectionIdOf(cfg.name)
        s1 == [s EXCEPT !.all_collections_ids = AppendIfAbsent(@, collection_id)]
        s2 == IF cfg.update_items_sort_names
              THEN [s1 EXCEPT !.collection_ids_with_custom_sorting =
                                  AppendIfAbsent(@, collection_id)]
              ELSE s1
    IN  Mutate(i, cfg, s2, p)

\* Create collection if it doesn't exist (lines 393-406).
\* add_emby_ids after add_emby_ids.pop(0).
PopLast(add_emby_ids) == SubSeq(add_emby_ids, 1, Len(add_emby_ids) - 1)
PopFirst(add_emby_ids) == Tail(add_emby_ids)

\* [add_emby_ids[0]], the items the collection is created with.
CreatedWithAll(add_emby_ids) == Range(add_emby_ids)
CreatedWith(add_emby_ids) == {add_emby_ids[1]}

\* "No items to put in mdblist" (lines 395-397).
NoItemsToPutGoesOn(i, cfg, s, p) == Track(i, cfg, s, p)
NoItemsToPut(i, cfg, s, p) == Return(i, s, p, "NothingToCreate")

Create(i, cfg, s, p, collection_id) ==
    IF collection_id # NoneId THEN Track(i, cfg, s, p)
    ELSE IF p.add_emby_ids = <<>> THEN NoItemsToPut(i, cfg, s, p)
    ELSE \E r \in Outcomes(p, {"CreateRaise"}) :
            LET q == Log(p, "create_collection", CreatedWith(p.add_emby_ids), cfg.name, NonePath)
            IN  IF r # "ok" THEN Return(i, s, Hit(q, r), "CreateFailed")
                ELSE Track(i, cfg,
                           [s EXCEPT
                              !.collections =
                                  EmbyCreateCollection(@, cfg.name, CreatedWith(p.add_emby_ids)),
                              !.createdByPass = @ \cup {cfg.name}],
                           [q EXCEPT !.add_emby_ids = PopFirst(@), !.created = TRUE])

\* Convert IMDB IDs to Emby item IDs (lines 389-391); the order of the result
\* is the connector's.
Resolve(i, cfg, s, p, collection_id) ==
    \E r \in Outcomes(p, {"ResolveRaise"}) :
       LET q == Log(p, "get_items_with_imdb_id", p.missing, <<>>, NonePath)
       IN  IF r # "ok" THEN Return(i, s, Hit(q, r), "Raised")
           ELSE \E order \in Orders(EmbyItemsWithImdbId(p.missing)) :
                   Create(i, cfg, s, [q EXCEPT !.resolved = order, !.add_emby_ids = order],
                          collection_id)

\* Determine which items to add and remove (lines 361-387).
\* The local ids of the members whose IMDB id is not in the list.
RemoveEmbyIdsInList(collection_items, mdblist_imdb_ids) ==
    {item \in collection_items : ImdbOf(item) \in mdblist_imdb_ids}
RemoveEmbyIds(collection_items, mdblist_imdb_ids) ==
    {item \in collection_items : ImdbOf(item) \notin mdblist_imdb_ids}

MissingImdbIdsAll(collection_items, mdblist_imdb_ids) == mdblist_imdb_ids
MissingImdbIdsUntried(collection_items, mdblist_imdb_ids) ==
    find_missing_entries_in_list({ImdbOf(item) : item \in collection_items}, mdblist_imdb_ids)
        \ {ImdbOf(item) : item \in UNION {settled[k].owed : k \in DOMAIN settled}}
MissingImdbIds(collection_items, mdblist_imdb_ids) ==
    find_missing_entries_in_list({ImdbOf(item) : item \in collection_items}, mdblist_imdb_ids)

Compare(i, cfg, s, p) ==
    LET collection_id == EmbyGetCollectionId(s.collections, cfg.name)
        p0 == Log(p, "get_collection_id", {}, cfg.name, NonePath)
    IN  \E r0 \in Outcomes(p0, {"LookupRaise"}) :
        IF r0 # "ok" THEN Return(i, s, Hit(p0, r0), "Raised")
        ELSE IF collection_id = NoneId
        THEN Resolve(i, cfg, s, [p0 EXCEPT !.missing = p.D], collection_id)
        ELSE \E r \in Outcomes(p0, {"ItemsRaise", "ItemsNone"}) :
                LET q == Log(p0, "get_items_in_collection", {}, cfg.name, NonePath)
                    collection_items == EmbyItemsInCollection(s.collections, cfg.name)
                IN  IF r # "ok" THEN Return(i, s, Hit(q, r), "CompareFailed")
                    ELSE Resolve(i, cfg, s,
                                 [q EXCEPT
                                    !.missing = MissingImdbIds(collection_items, p.D),
                                    !.remove_emby_ids = RemoveEmbyIds(collection_items, p.D)],
                                 collection_id)

\* Fetch items from MDBList (lines 310-359).  The list service answers with the
\* identifiers of some set; an answer may repeat identifiers, here its smallest.
ListAnswer(ids) ==
    SetToSeq(ids) \o SetToSeq({x \in ids : \A y \in ids : x <= y})

Deduplicate(mdblist_imdb_ids) == Range(mdblist_imdb_ids)

\* The sets of identifiers the list with an id may hold at the list service.
ListItems(id) ==
    CASE id = "one" -> {{}, {1}}
      [] id = "two" -> {{2}, {1, 2}}
      [] OTHER -> SUBSET ImdbIds

\* len(mdblist_imdb_ids) == 0 (lines 351-355).
EmptyAnswerNever(mdblist_imdb_ids) == FALSE
EmptyAnswer(mdblist_imdb_ids) == Len(mdblist_imdb_ids) = 0

\* The validation of the fetched identifiers and what follows (lines 346-359).
Fetched(i, cfg, s, q, mdblist_imdb_ids) ==
    IF EmptyAnswer(mdblist_imdb_ids) THEN Return(i, s, q, "EmptyList")
    ELSE Compare(i, cfg, s,
                 [q EXCEPT
                    !.D = Deduplicate(mdblist_imdb_ids),
                    !.repeat = /\ settled[i].ok
                               /\ settled[i].D = Deduplicate(mdblist_imdb_ids)])

\* mdblist.get_list(list_id) (lines 316-317, 324).
GetList(i, cfg, s, p) ==
    \E r \in Outcomes(p, {"FetchRaise"}) :
       LET q == Log(p, "get_list", {}, cfg.name, NonePath)
       IN  IF r # "ok" THEN Return(i, s, Hit(q, r), "FetchFailed")
           ELSE \E ids \in ListItems(cfg.id) : Fetched(i, cfg, s, q, ListAnswer(ids))

\* The identifiers the list at a URL may hold; the empty URL names no list.
UrlItems(url) ==
    CASE url = "u1" -> {{1}}
      [] url = "u2" -> {{2}}
      [] OTHER -> {{}}

\* What get_list_using_url may do for each of the URLs: answer with the
\* identifiers, answer with nothing (None or an empty list), or raise; at most
\* MaxFaults of the calls of a pass fail.
UrlAnswers(p, urls) ==
    {a \in [1 .. Len(urls) -> [kind : {"ok", "UrlNone", "UrlRaise"}, ids : SUBSET ImdbIds]] :
        /\ \A k \in 1 .. Len(urls) :
              IF a[k].kind = "ok" THEN a[k].ids \in UrlItems(urls[k]) ELSE a[k].ids = {}
        /\ Cardinality({k \in 1 .. Len(urls) : a[k].kind # "ok"}) + Cardinality(p.faults)
              <= MaxFaults}

\* The loop over the URLs (lines 334-338), from the k-th on: an answer that is
\* not empty extends mdblist_imdb_ids, an empty one or None is passed over, and
\* an exception leaves the loop.
RECURSIVE FetchUrls(_, _, _, _)
FetchUrls(urls, k, answers, r) ==
    IF k > Len(urls) \/ r.raised THEN r
    ELSE LET q == Log(r.p, "get_list_using_url", {}, <<>>, urls[k])
         IN  CASE answers[k].kind = "UrlRaise" ->
                    [r EXCEPT !.p = Hit(q, "UrlRaise"), !.raised = TRUE]
               [] answers[k].kind = "UrlNone" ->
                    FetchUrls(urls, k + 1, answers, [r EXCEPT !.p = Hit(q, "UrlNone")])
               [] OTHER ->
                    FetchUrls(urls, k + 1, answers,
                              [r EXCEPT !.p = q,
                                        !.ids = IF answers[k].ids = {} THEN @
                                                ELSE @ \o ListAnswer(answers[k].ids)])

\* The source of the list (lines 314-344): "id" (list_id is not None), "name"
\* (list name and user name), "urls" (source is not None; cfg.urls is the
\* result of the split, one empty URL for the source ""), or "none".
Fetch(i, cfg, s, p) ==
    CASE cfg.source_kind = "none" -> Return(i, s, p, "NoSource")
      [] cfg.source_kind = "urls" ->
           \E answers \in UrlAnswers(p, cfg.urls) :
              LET r == FetchUrls(cfg.urls, 1, answers, [p |-> p, ids |-> <<>>, raised |-> FALSE])
              IN  IF r.raised THEN Return(i, s, r.p, "FetchFailed")
                  ELSE Fetched(i, cfg, s, r.p, r.ids)
      [] cfg.source_kind = "name" ->
           \E f \in Outcomes(p, {"FindRaise", "FindNone"}) :
              LET q == Log(p, "find_list_id_by_name_and_user", {}, cfg.name, NonePath)
              IN  CASE f = "FindRaise" -> Return(i, s, Hit(q, f), "FetchFailed")
                    [] f = "FindNone" -> Return(i, s, Hit(q, f), "ListNotFound")
                    [] OTHER -> GetList(i, cfg, s, q)
      [] OTHER -> GetList(i, cfg, s, p)

\* Frequency filter (lines 300-308).
RandInt == RandLow .. RandHigh

EffectiveFrequencyConfigured(frequency, collection_id) == frequency
EffectiveFrequency(frequency, collection_id) ==
    IF collection_id = NoneId THEN ForcedFrequency ELSE frequency

SkipByFrequencyAtLeast(draw, frequency) == draw >= frequency
SkipByFrequency(draw, frequency) == draw > frequency

\* Draws with the same result of the comparison behave alike: the largest of each
\* kind stands for them.
Sample(i, cfg, s, p, collection_id) ==
    LET frequency == EffectiveFrequency(cfg.frequency, collection_id)
    IN  \E skip \in {SkipByFrequency(d, frequency) : d \in RandInt} :
           LET same == {d \in RandInt : SkipByFrequency(d, frequency) = skip}
               draw == CHOOSE d \in same : \A e \in same : e <= d
               q == [p EXCEPT !.frequency = frequency, !.draw = draw]
           IN  IF skip THEN Return(i, s, q, "SkippedFrequency")
               ELSE Fetch(i, cfg, s, q)

\* Seasonal collections (lines 273-298); inside is inside_period's answer.
\* item_ids (lines 284-288): the ids of the listed items, none when the listing
\* returned None.
ItemIdsButFirst(r, all_items_in_collection) ==
    IF r = "ok"
    THEN {item \in all_items_in_collection : \E other \in all_items_in_collection : other < item}
    ELSE {}
ItemIds(r, all_items_in_collection) ==
    IF r = "ok" THEN all_items_in_collection ELSE {}

InactiveFallsThrough(i, cfg, s, p, collection_id) ==
    Sample(i, cfg, s, p, collection_id)
Inactive(i, cfg, s, p, collection_id) ==
    IF collection_id = NoneId THEN Return(i, s, p, "InactiveAbsent")
    ELSE \E r \in Outcomes(p, {"ItemsRaise", "ItemsNone"}) :
            LET q == Log(p, "get_items_in_collection", {}, cfg.name, NonePath)
                item_ids == ItemIds(r, EmbyItemsInCollection(s.collections, cfg.name))
            IN  IF r = "ItemsRaise" THEN Return(i, s, Hit(q, r), "InactiveEmptied")
                ELSE IF item_ids = {}
                THEN Return(i, s, IF r = "ok" THEN q ELSE Hit(q, r), "InactiveEmptied")
                ELSE \E rd \in Outcomes(q, {"DeleteRaise", "DeleteNone"}) :
                        LET q2 == Log(q, "delete_from_collection", item_ids, cfg.name, NonePath)
                        IN  IF rd = "ok"
                            THEN Return(i,
                                        [s EXCEPT
                                           !.collections =
                                               EmbyDeleteFromCollection(@, cfg.name, item_ids),
                                           !.newly_removed = @ + Cardinality(item_ids)],
                                        q2, "InactiveEmptied")
                            ELSE Return(i, s, Hit(q2, rd), "InactiveEmptied")

ProcessList(i) ==
    /\ settings.impl = "mdblist"
    /\ phase = "lists"
    /\ i = idx
    /\ i <= Len(lists)
    /\ last = NoPass
    /\ LET cfg == lists[i]
           collection_id == EmbyGetCollectionId(collections, cfg.name)
           p == NewPass(i, cfg, collection_id)
       IN  \E r \in Outcomes(p, {"LookupRaise"}) :
              IF r # "ok" THEN Return(i, Now, Hit(p, r), "Raised")
              ELSE IF cfg.active_between
              THEN \E inside \in BOOLEAN :
                      IF inside
                      THEN Sample(i, cfg, Now, [p EXCEPT !.window = "inside"], collection_id)
                      ELSE Inactive(i, cfg, Now, [p EXCEPT !.window = "outside"], collection_id)
              ELSE Sample(i, cfg, Now, p, collection_id)

\* process_hardcoded_lists (lines 189-195): process_list has returned or raised,
\* its locals are gone and the loop goes on to the next list.
\* The position of the loop after the call for the i-th list returned or
\* raised: the except clause (lines 194-195) logs the error and the loop goes on.
NextIndexAfterFailureEnds(i, p) == IF p.faults # {} THEN Len(lists) + 1 ELSE i + 1
NextIndex(i, p) == i + 1

NextList ==
    /\ settings.impl = "mdblist"
    /\ phase = "lists"
    /\ last # NoPass
    /\ last' = NoPass
    /\ idx' = NextIndex(idx, last)
    /\ UNCHANGED <<collections, posterCache, uploaded, newly_added, newly_removed,
                   all_collections_ids, collection_ids_with_custom_sorting, settled,
                   createdByPass, configVars, refresherVars, phase, sweep, checks, cycleLog>>

\* The loops over the lists of the cycle have ended (lines 56-62): the
\* statements after them are reached.
ListsDoneAfterFirst == idx > 1
ListsDone == idx > Len(lists)

\* run(), after the lists of a cycle (lines 64-92): the summary, the counters
\* back at 0, the sort names of the items, and then either the sweep of the
\* Refresher over all_collections_ids or, with REFRESH_ITEMS off, the next cycle.
Summary ==
    /\ settings.impl = "mdblist"
    /\ phase = "lists"
    /\ ListsDone
    /\ last = NoPass
    /\ newly_added' = 0
    /\ newly_removed' = 0
    /\ idx' = 1
    /\ sweep' = 1
    /\ phase' = IF settings.refresh_items THEN "refresh" ELSE "lists"
    /\ cycleLog' = IF settings.refresh_items THEN cycleLog ELSE <<>>
    /\ UNCHANGED <<collections, posterCache, uploaded, all_collections_ids,
                   collection_ids_with_custom_sorting, settled, createdByPass, last,
                   configVars, refresherVars, checks>>

Next ==
    \/ \E i \in 1 .. Len(lists) : ProcessList(i)
    \/ NextList
    \/ Summary

----------------------------------------------------------------------------
\* Refresher.process_collection (refresher.py:23-105).  A date is a day number,
\* or unparseable text, or None.

Date(day) == [kind |-> "date", day |-> day]
BadDate == [kind |-> "bad", day |-> 0]
NoDate == [kind |-> "none", day |-> 0]

\* current_date = datetime.now(), as a day number.
Today == 50

\* (current_date - date).days
DaysSince(date) == Today - date.day

\* premier_date (lines 69-80): now, when the item has no PremiereDate.
PremierDate(item) ==
    IF dates[item].PremiereDate.kind = "none" THEN Date(Today) ELSE dates[item].PremiereDate

\* No connectivity check was made in this attempt.
NoChecks == [made |-> <<>>, failed |-> 0]

\* The record of one process_collection call.
NoRefresh ==
    [collection |-> NoneId, processed0 |-> <<>>, processed |-> <<>>, examined |-> <<>>,
     requested |-> <<>>, failed |-> {}, raised |-> "no"]

NewRefresh(collection_id) ==
    [NoRefresh EXCEPT !.collection = collection_id, !.processed0 = processed_items,
                      !.processed = processed_items]

\* What the loop body (lines 51-93) does with an item: "processed" (seen
\* before), "created" (DateCreated does not parse), "raise" (PremiereDate does
\* not parse, outside any try), "premiered" and "added" (too old), or "refresh".
ItemStepEitherBound(item, processed, max_days_since_added, max_days_since_premiered) ==
    IF item \in Range(processed) THEN "processed"
    ELSE IF dates[item].DateCreated.kind # "date" THEN "created"
    ELSE IF dates[item].PremiereDate.kind = "bad" THEN "raise"
    ELSE IF /\ DaysSince(PremierDate(item)) > max_days_since_premiered
            /\ DaysSince(dates[item].DateCreated) > max_days_since_added
    THEN "premiered"
    ELSE "refresh"
ItemStep(item, processed, max_days_since_added, max_days_since_premiered) ==
    IF item \in Range(processed) THEN "processed"
    ELSE IF dates[item].DateCreated.kind # "date" THEN "created"
    ELSE IF dates[item].PremiereDate.kind = "bad" THEN "raise"
    ELSE IF DaysSince(PremierDate(item)) > max_days_since_premiered THEN "premiered"
    ELSE IF DaysSince(dates[item].DateCreated) > max_days_since_added THEN "added"
    ELSE "refresh"

\* self.processed_items after the loop body met item (lines 51-55).
MarkProcessedNever(processed, item) == processed
MarkProcessedOnceParsed(processed, item) ==
    IF item \in Range(processed) \/ dates[item].DateCreated.kind # "date" THEN processed
    ELSE Append(processed, item)
MarkProcessed(processed, item) ==
    IF item \in Range(processed) THEN processed ELSE Append(processed, item)

\* The loop over items_in_collection from the k-th item on; answers[item] is
\* what refresh_item does for it: "ok" (True), "fail" (anything else) or "raise".
RECURSIVE RefreshItems(_, _, _, _)
RefreshItems(items, k, r, answers) ==
    IF k > Len(items) \/ r.raised # "no" THEN r
    ELSE LET item == items[k]
             step == ItemStep(item, r.processed, settings.max_days_since_added,
                              settings.max_days_since_premiered)
             met == [r EXCEPT !.examined = Append(@, item),
                              !.processed = MarkProcessed(@, item)]
         IN  CASE step = "raise" -> [met EXCEPT !.raised = "PremiereDate"]
               [] step = "refresh" ->
                    RefreshItems(items, k + 1,
                                 [met EXCEPT
                                    !.requested = Append(@, item),
                                    !.failed = IF answers[item] = "fail" THEN @ \cup {item} ELSE @,
                                    !.raised = IF answers[item] = "raise" THEN "refresh_item" ELSE @],
                                 answers)
               [] OTHER -> RefreshItems(items, k + 1, met, answers)

\* The name of the collection with an id.
NameOfCollection(collection_id) ==
    CHOOSE n \in Range(AllNames) : CollectionIdOf(n) = collection_id

\* After an exception left the loop body of the main loop: run() logs it and
\* sleeps a minute (mdblist.py:93-95); main() of app.py has no handler.
RaisedPhase == IF settings.impl = "mdblist" THEN "sleep" ELSE "crashed"

\* One turn of "for collection_id in all_collections_ids" (mdblist.py:87-92,
\* app.py:401-407): one whole call of process_collection.
Sweep ==
    /\ phase = "refresh"
    /\ sweep <= Len(all_collections_ids)
    /\ LET collection_id == all_collections_ids[sweep]
           members == collections[NameOfCollection(collection_id)].members
           items_in_collection == SetToSeq(members)
       IN  \E listing \in {"ok", "ItemsRaise", "ItemsNone"},
              answers \in [members -> {"ok", "fail", "raise"}] :
              /\ Cardinality({m \in members : answers[m] # "ok"})
                    + (IF listing = "ok" THEN 0 ELSE 1) <= MaxFaults
              /\ LET r0 == NewRefresh(collection_id)
                     r == IF listing # "ok" THEN [r0 EXCEPT !.raised = listing]
                          ELSE RefreshItems(items_in_collection, 1, r0, answers)
                 IN  /\ processed_items' = r.processed
                     /\ refreshes' = refreshes \o r.requested
                     /\ lastRefresh' = r
                     /\ IF r.raised = "no"
                        THEN sweep' = sweep + 1 /\ phase' = phase
                        ELSE sweep' = sweep /\ phase' = RaisedPhase
    /\ UNCHANGED <<passVars, configVars, idx, checks, cycleLog>>

\* The sweep is over: run() starts the next cycle at once; main() of app.py
\* ends with hours_between_refresh 0 and else sleeps and starts the next cycle.
EndSweep ==
    /\ phase = "refresh"
    /\ sweep > Len(all_collections_ids)
    /\ phase' = IF settings.impl = "mdblist" THEN "lists"
                ELSE IF settings.hours_between_refresh = 0 THEN "stopped" ELSE "check"
    /\ lastRefresh' = NoRefresh
    /\ checks' = NoChecks
    /\ cycleLog' = <<>>
    /\ UNCHANGED <<passVars, configVars, processed_items, refreshes, idx, sweep>>

\* run(): after the sleep of the exception handler the loop starts over.
Retry ==
    /\ settings.impl = "mdblist"
    /\ phase = "sleep"
    /\ phase' = "lists"
    /\ idx' = 1
    /\ lastRefresh' = NoRefresh
    /\ cycleLog' = <<>>
    /\ UNCHANGED <<passVars, configVars, processed_items, refreshes, sweep, checks>>

----------------------------------------------------------------------------
\* app.py: process_list (lines 71-255), stage by stage, last stage first.  It
\* catches one exception only, that of the member listing of the comparison.

\* Description (lines 248-255).
AppDescription(i, cfg, s, p) ==
    LET text == IF UseMdbDescription(cfg, cfg.use_mdb_description) THEN cfg.description
                ELSE cfg.overwrite_description
    IN  IF UseMdbDescription(cfg, cfg.use_mdb_description) \/ cfg.overwrite_description # NoneStr
        THEN \E r \in Outcomes(p, {"PropertyRaise"}) :
                LET q == Log(p, "set_item_property:Overview", {}, text, NonePath)
                IN  IF r = "ok" THEN Return(i, s, q, "Done") ELSE Crash(i, s, Hit(q, r))
        ELSE Return(i, s, p, "Done")

\* Sort name (lines 214-244).  The loop over unwanted_words tests
\* startswith(word) and cuts len(word) + 1 characters.
RECURSIVE AppStripFrom(_, _)
AppStripFrom(name, i) ==
    IF i > Len(UnwantedWords) THEN name
    ELSE AppStripFrom(StripWordNoSpace(name, UnwantedWords[i]), i + 1)

AppStripArticles(name) == AppStripFrom(name, 1)

\* "collection_sort_date is True": whether the dictionary holds the object
\* True.  A dictionary of process_hardcoded_lists holds the option's text
\* (config_parser.get, line 295) or the fallback False, and neither is the
\* object True: such a list has collection_sort_date FALSE here.
AppSortDateIsTrue(cfg) == cfg.collection_sort_date

\* "date", "prefix" or "none" (lines 230-238); the removals counted are those
\* of the global newly_removed.
AppSortBranch(cfg, items_added, removed) ==
    IF AppSortDateIsTrue(cfg) /\ (items_added > 0 \/ removed > 0) THEN "date"
    ELSE IF cfg.collection_sort_prefix # NoneStr THEN "prefix"
    ELSE "none"

AppSortName(i, cfg, s, p) ==
    LET stripped == AppStripArticles(BaseSortName(cfg))
        branch == AppSortBranch(cfg, p.items_added, s.newly_removed)
    IN  CASE branch = "date" ->
               \E minutes \in MinutesUntil2100, r \in Outcomes(p, {"PropertyRaise"}) :
                  LET q == Log(p, "set_item_property:ForcedSortName", {},
                               DateSortName(minutes, stripped), NonePath)
                  IN  IF r = "ok" THEN AppDescription(i, cfg, s, q) ELSE Crash(i, s, Hit(q, r))
          [] branch = "prefix" ->
               \E r \in Outcomes(p, {"PropertyRaise"}) :
                  LET q == Log(p, "set_item_property:ForcedSortName", {},
                               PrefixSortName(cfg.collection_sort_prefix, stripped), NonePath)
                  IN  IF r = "ok" THEN AppDescription(i, cfg, s, q) ELSE Crash(i, s, Hit(q, r))
          [] OTHER -> AppDescription(i, cfg, s, p)

\* set_poster (lines 310-335).
AppPosterSkipped(cache, collection_id, poster_path) ==
    \/ poster_path = NonePath
    \/ poster_path = cache[collection_id]

AppSetPoster(i, cfg, s, p) ==
    LET collection_id == CollectionIdOf(cfg.name)
    IN  IF AppPosterSkipped(s.posterCache, collection_id, cfg.poster)
        THEN AppSortName(i, cfg, s, p)
        ELSE \E r \in Outcomes(p, {"ImageFalse", "ImageRaise"}) :
                LET q == Log(p, "set_image", {}, <<>>, cfg.poster)
                IN  CASE r = "ImageRaise" -> Crash(i, s, Hit(q, r))
                      [] r = "ImageFalse" -> AppSortName(i, cfg, s, Hit(q, r))
                      [] OTHER ->
                           AppSortName(i, cfg,
                                       [s EXCEPT !.uploaded[collection_id] = @ \cup {cfg.poster},
                                                 !.posterCache[collection_id] = cfg.poster],
                                       q)

\* Add and remove (lines 208-210).
AppMutate(i, cfg, s, p) ==
    LET add == Range(p.add_emby_ids)
        p1 == Log(p, "add_to_collection", add, cfg.name, NonePath)
    IN  \E ra \in Outcomes(p, {"AddRaise", "AddNone", "AddPartial"}) :
           IF ra = "AddRaise" THEN Crash(i, s, Hit(p1, ra))
           ELSE \E done \in AddedBy(ra, add) :
                LET items_added == Cardinality(done)
                    sa == [s EXCEPT
                             !.collections = EmbyAddToCollection(@, cfg.name, done),
                             !.newly_added = @ + items_added]
                    pa == [(IF ra = "ok" THEN p1 ELSE Hit(p1, ra)) EXCEPT
                             !.items_added = items_added]
                    p2 == Log(pa, "delete_from_collection", p.remove_emby_ids, cfg.name, NonePath)
                IN  \E rd \in Outcomes(pa, {"DeleteRaise", "DeleteNone"}) :
                       IF rd = "DeleteRaise" THEN Crash(i, sa, Hit(p2, rd))
                       ELSE LET removed == IF rd = "ok" THEN Cardinality(p.remove_emby_ids) ELSE 0
                                sd == [sa EXCEPT
                                         !.collections =
                                             IF rd = "ok"
                                             THEN EmbyDeleteFromCollection(@, cfg.name, p.remove_emby_ids)
                                             ELSE @,
                                         !.newly_removed = @ + removed]
                                pd == [(IF rd = "ok" THEN p2 ELSE Hit(p2, rd)) EXCEPT
                                         !.items_removed = removed]
                            IN  AppSetPoster(i, cfg, sd, pd)

\* Tracking (lines 202-206): the second list is appended to without a test.
AppTrack(i, cfg, s, p) ==
    LET collection_id == CollectionIdOf(cfg.name)
        s1 == [s EXCEPT !.all_collections_ids = AppendIfAbsent(@, collection_id)]
        s2 == IF cfg.update_items_sort_names
              THEN [s1 EXCEPT !.collection_ids_with_custom_sorting = Append(@, collection_id)]
              ELSE s1
    IN  AppMutate(i, cfg, s2, p)

\* Creation (lines 194-200).
AppCreate(i, cfg, s, p, collection_id) ==
    IF collection_id # NoneId THEN AppTrack(i, cfg, s, p)
    ELSE IF Len(p.add_emby_ids) = 0 THEN Return(i, s, p, "NothingToCreate")
    ELSE \E r \in Outcomes(p, {"CreateRaise"}) :
            LET q == Log(p, "create_collection", CreatedWith(p.add_emby_ids), cfg.name, NonePath)
            IN  IF r # "ok" THEN Crash(i, s, Hit(q, r))
                ELSE AppTrack(i, cfg,
                              [s EXCEPT
                                 !.collections =
                                     EmbyCreateCollection(@, cfg.name, CreatedWith(p.add_emby_ids)),
                                 !.createdByPass = @ \cup {cfg.name}],
                              [q EXCEPT !.add_emby_ids = PopFirst(@), !.created = TRUE])

\* Resolution (line 190).
AppResolve(i, cfg, s, p, collection_id) ==
    \E r \in Outcomes(p, {"ResolveRaise"}) :
       LET q == Log(p, "get_items_with_imdb_id", p.missing, <<>>, NonePath)
       IN  IF r # "ok" THEN Crash(i, s, Hit(q, r))
           ELSE \E order \in Orders(EmbyItemsWithImdbId(p.missing)) :
                   AppCreate(i, cfg, s, [q EXCEPT !.resolved = order, !.add_emby_ids = order],
                             collection_id)

\* Comparison (lines 167-187): a raise of the listing is caught, a listing of
\* None raises in the list comprehension after the try.
AppCompare(i, cfg, s, p) ==
    LET collection_id == EmbyGetCollectionId(s.collections, cfg.name)
        p0 == Log(p, "get_collection_id", {}, cfg.name, NonePath)
    IN  \E r0 \in Outcomes(p0, {"LookupRaise"}) :
        IF r0 # "ok" THEN Crash(i, s, Hit(p0, r0))
        ELSE IF collection_id = NoneId
        THEN AppResolve(i, cfg, s, [p0 EXCEPT !.missing = p.D], collection_id)
        ELSE \E r \in Outcomes(p0, {"ItemsRaise", "ItemsNone"}) :
                LET q == Log(p0, "get_items_in_collection", {}, cfg.name, NonePath)
                    collection_items == EmbyItemsInCollection(s.collections, cfg.name)
                IN  CASE r = "ItemsRaise" -> Return(i, s, Hit(q, r), "CompareFailed")
                      [] r = "ItemsNone" -> Crash(i, s, Hit(q, r))
                      [] OTHER ->
                           AppResolve(i, cfg, s,
                                      [q EXCEPT
                                         !.missing = MissingImdbIds(collection_items, p.D),
                                         !.remove_emby_ids = RemoveEmbyIds(collection_items, p.D)],
                                      collection_id)

\* Fetch (lines 129-165).
AppFetch(i, cfg, s, p) ==
    IF cfg.source_kind = "none" THEN Return(i, s, p, "NoSource")
    ELSE \E r \in Outcomes(p, {"FetchRaise"}) :
            LET q == Log(p, "get_list", {}, cfg.name, NonePath)
            IN  IF r # "ok" THEN Crash(i, s, Hit(q, r))
                ELSE \E ids \in ListItems(cfg.id) :
                        LET mdblist_imdb_ids == ListAnswer(ids)
                        IN  IF Len(mdblist_imdb_ids) = 0 THEN Return(i, s, q, "EmptyList")
                            ELSE AppCompare(i, cfg, s,
                                            [q EXCEPT
                                               !.D = Deduplicate(mdblist_imdb_ids),
                                               !.repeat = /\ settled[i].ok
                                                          /\ settled[i].D = Deduplicate(mdblist_imdb_ids)])

\* Frequency (lines 120-127).
AppSample(i, cfg, s, p, collection_id) ==
    LET frequency == EffectiveFrequency(cfg.frequency, collection_id)
    IN  \E skip \in {SkipByFrequency(d, frequency) : d \in RandInt} :
           LET same == {d \in RandInt : SkipByFrequency(d, frequency) = skip}
               draw == CHOOSE d \in same : \A e \in same : e <= d
               q == [p EXCEPT !.frequency = frequency, !.draw = draw]
           IN  IF skip THEN Return(i, s, q, "SkippedFrequency")
               ELSE AppFetch(i, cfg, s, q)

\* Seasonal collections (lines 96-118): the removal is called also with no items.
AppInactive(i, cfg, s, p, collection_id) ==
    IF collection_id = NoneId THEN Return(i, s, p, "InactiveAbsent")
    ELSE \E r \in Outcomes(p, {"ItemsRaise", "ItemsNone"}) :
            LET q == Log(p, "get_items_in_collection", {}, cfg.name, NonePath)
                item_ids == ItemIds(r, EmbyItemsInCollection(s.collections, cfg.name))
            IN  IF r = "ItemsRaise" THEN Crash(i, s, Hit(q, r))
                ELSE \E rd \in Outcomes(q, {"DeleteRaise", "DeleteNone"}) :
                        LET q1 == IF r = "ok" THEN q ELSE Hit(q, r)
                            q2 == Log(q1, "delete_from_collection", item_ids, cfg.name, NonePath)
                        IN  CASE rd = "DeleteRaise" -> Crash(i, s, Hit(q2, rd))
                              [] rd = "DeleteNone" -> Return(i, s, Hit(q2, rd), "InactiveEmptied")
                              [] OTHER ->
                                   Return(i,
                                          [s EXCEPT
                                             !.collections =
                                                 EmbyDeleteFromCollection(@, cfg.name, item_ids),
                                             !.newly_removed = @ + Cardinality(item_ids)],
                                          q2, "InactiveEmptied")

AppProcessList(i) ==
    /\ settings.impl = "app"
    /\ phase = "lists"
    /\ i = idx
    /\ i <= Len(lists)
    /\ last = NoPass
    /\ Len(collection_ids_with_custom_sorting) < MaxTracked
    /\ LET cfg == lists[i]
           collection_id == EmbyGetCollectionId(collections, cfg.name)
           p == NewPass(i, cfg, collection_id)
       IN  \E r \in Outcomes(p, {"LookupRaise"}) :
              IF r # "ok" THEN Crash(i, Now, Hit(p, r))
              ELSE IF cfg.active_between
              THEN \E inside \in BOOLEAN :
                      IF inside
                      THEN AppSample(i, cfg, Now, [p EXCEPT !.window = "inside"], collection_id)
                      ELSE AppInactive(i, cfg, Now, [p EXCEPT !.window = "outside"], collection_id)
              ELSE AppSample(i, cfg, Now, p, collection_id)

\* process_hardcoded_lists of app.py (lines 306-307): the next list.
AppNextList ==
    /\ settings.impl = "app"
    /\ phase = "lists"
    /\ last # NoPass
    /\ last' = NoPass
    /\ idx' = idx + 1
    /\ UNCHANGED <<collections, posterCache, uploaded, newly_added, newly_removed,
                   all_collections_ids, collection_ids_with_custom_sorting, settled,
                   createdByPass, configVars, refresherVars, phase, sweep, checks, cycleLog>>

\* main() of app.py, the connectivity checks (lines 352-370): the internet,
\* the media server, the list service, in this order, up to the first that
\* fails; checks is the list of those made, failed the one that failed.
ChecksInOrder == <<"internet", "emby", "mdblist">>

ChecksUpTo(k) == SubSeq(ChecksInOrder, 1, k)

AppPreCheck ==
    /\ settings.impl = "app"
    /\ phase = "check"
    /\ \E failed \in 0 .. Len(ChecksInOrder) :
          /\ checks' = [made |-> IF failed = 0 THEN ChecksInOrder ELSE ChecksUpTo(failed),
                        failed |-> failed]
          /\ phase' = IF failed = 0 THEN "lists" ELSE "backoff"
    /\ idx' = 1
    /\ UNCHANGED <<passVars, configVars, refresherVars, sweep, cycleLog>>

\* time.sleep(300); continue: the loop body starts over.
AfterBackoffLists == "lists"
AfterBackoff == "check"

AppBackoff ==
    /\ settings.impl = "app"
    /\ phase = "backoff"
    /\ phase' = AfterBackoff
    /\ checks' = NoChecks
    /\ UNCHANGED <<passVars, configVars, refresherVars, idx, sweep, cycleLog>>

\* main() after the lists (lines 379-414): the summary, the counters back at 0,
\* the sort names of the items, and the sweep when refresh_items is True; else
\* the end of the turn of the loop.
AppSummary ==
    /\ settings.impl = "app"
    /\ phase = "lists"
    /\ ListsDone
    /\ last = NoPass
    /\ newly_added' = 0
    /\ newly_removed' = 0
    /\ idx' = 1
    /\ sweep' = 1
    /\ phase' = IF settings.refresh_items THEN "refresh"
                ELSE IF settings.hours_between_refresh = 0 THEN "stopped" ELSE "check"
    /\ checks' = IF settings.refresh_items THEN checks ELSE NoChecks
    /\ cycleLog' = IF settings.refresh_items THEN cycleLog ELSE <<>>
    /\ UNCHANGED <<collections, posterCache, uploaded, all_collections_ids,
                   collection_ids_with_custom_sorting, settled, createdByPass, last,
                   configVars, refresherVars>>

\* main() of app.py.
NextApp ==
    \/ AppPreCheck
    \/ AppBackoff
    \/ \E i \in 1 .. Len(lists) : AppProcessList(i)
    \/ AppNextList
    \/ AppSummary
    \/ Sweep
    \/ EndSweep

\* run() with REFRESH_ITEMS on.
NextRun ==
    \/ Next
    \/ Sweep
    \/ EndSweep
    \/ Retry

\* Either program.
NextBoth == Next \/ Retry \/ NextApp

----------------------------------------------------------------------------
\* Initial states: the configuration, and a media server and a poster cache as
\* earlier runs may have left them.

Frequencies == {0, 50, 100}
PosterPaths == {"a.jpg", "b.jpg"}
NameSet == Range(AllNames)

\* Lists whose gate and reconciliation vary; no metadata is configured.
GateLists ==
    [name : {NameXmas}, frequency : Frequencies, active_between : BOOLEAN,
     source_kind : {"id"}, id : {"any"}, poster : {NonePath}, update_items_sort_names : {FALSE},
     collection_sort_name : {NoneStr}, collection_sort_prefix : {NoneStr},
     collection_sort_date : {FALSE}, description : {NoneStr},
     overwrite_description : {NoneStr}, use_mdb_description : {FALSE}]

\* Lists that are always processed and whose poster varies.
PosterLists ==
    [name : {NameXmas}, frequency : {DefaultFrequency},
     active_between : {FALSE}, source_kind : {"id"}, id : {"any"},
     poster : {NonePath, "", "a.jpg"}, update_items_sort_names : {FALSE},
     collection_sort_name : {NoneStr}, collection_sort_prefix : {NoneStr},
     collection_sort_date : {FALSE}, description : {NoneStr},
     overwrite_description : {NoneStr}, use_mdb_description : {FALSE}]

\* Lists that are always processed and whose sort-name policy varies.
SortLists ==
    [name : {NameTheAB, NameAlien, NameACol}, frequency : {DefaultFrequency},
     active_between : {FALSE}, source_kind : {"id"}, id : {"any"},
     poster : {NonePath}, update_items_sort_names : {FALSE},
     collection_sort_name : {NoneStr, NameAnOld},
     collection_sort_prefix : {NoneStr, <<"1">>},
     collection_sort_date : BOOLEAN, description : {NoneStr},
     overwrite_description : {NoneStr}, use_mdb_description : {FALSE}]

ListNames(ls) == {ls[k].name : k \in 1 .. Len(ls)}

Absent == [exists |-> FALSE, members |-> {}]
CollectionStates == {Absent} \cup [exists : {TRUE}, members : SUBSET LocalIds]

\* The cache entries a list's collection may start with: any, when the list
\* configures a poster.
CacheStates(cfg) ==
    IF cfg.poster = NonePath THEN {NonePath} ELSE {NonePath} \cup PosterPaths

\* The [admin] options: refresh_items_in_collections and its two day bounds
\* (defaults 10 and 30), and hours_between_refresh of app.py.
PlainSettings ==
    [impl |-> "mdblist", refresh_items |-> FALSE, max_days_since_added |-> 10,
     max_days_since_premiered |-> 30, hours_between_refresh |-> 0]

\* A library whose items are new: created 5 and premiered 29 days ago.
FreshDates ==
    [l \in LocalIds |-> [DateCreated |-> Date(Today - 5), PremiereDate |-> Date(Today - 29)]]

InitOf(listSets, settingSets, dateSets) ==
    /\ lists \in listSets
    /\ settings \in settingSets
    /\ dates \in dateSets
    /\ phase = (IF settings.impl = "app" THEN "check" ELSE "lists")
    /\ sweep = 1
    /\ checks = NoChecks
    /\ processed_items = <<>>
    /\ refreshes = <<>>
    /\ lastRefresh = NoRefresh
    /\ cycleLog = <<>>
    /\ \A a, b \in 1 .. Len(lists) : a # b => lists[a].name # lists[b].name
    /\ \E f \in [ListNames(lists) -> CollectionStates] :
          collections = [n \in NameSet |-> IF n \in DOMAIN f THEN f[n] ELSE Absent]
    /\ \E g \in [1 .. Len(lists) -> {NonePath} \cup PosterPaths] :
          /\ \A k \in 1 .. Len(lists) : g[k] \in CacheStates(lists[k])
          /\ posterCache =
                [c \in CollectionIds |->
                    IF \E k \in 1 .. Len(lists) : CollectionIdOf(lists[k].name) = c
                    THEN g[CHOOSE k \in 1 .. Len(lists) : CollectionIdOf(lists[k].name) = c]
                    ELSE NonePath]
    /\ uploaded = [c \in CollectionIds |-> {posterCache[c]} \ {NonePath}]
    /\ newly_added = 0
    /\ newly_removed = 0
    /\ all_collections_ids = <<>>
    /\ collection_ids_with_custom_sorting = <<>>
    /\ idx = 1
    /\ settled = [k \in 1 .. Len(lists) |-> [ok |-> FALSE, D |-> {}, owed |-> {}]]
    /\ createdByPass = {}
    /\ last = NoPass

InitWith(listSets) == InitOf(listSets, {PlainSettings}, {FreshDates})

Init == InitWith([1 .. 1 -> GateLists])

Spec == Init /\ [][Next]_vars

InitPoster == InitWith([1 .. 1 -> PosterLists])

SpecPoster == InitPoster /\ [][Next]_vars

InitSort == InitWith([1 .. 1 -> SortLists])

SpecSort == InitSort /\ [][Next]_vars

\* A cycle of run() over two lists, with the sweep of the Refresher.
RunSettings == [PlainSettings EXCEPT !.refresh_items = TRUE]

RunList(name, id, poster, prefix, sorting) ==
    [name |-> name, frequency |-> DefaultFrequency, active_between |-> FALSE,
     source_kind |-> "id", id |-> id, poster |-> poster, update_items_sort_names |-> sorting,
     collection_sort_name |-> NoneStr, collection_sort_prefix |-> prefix,
     collection_sort_date |-> FALSE, description |-> NoneStr,
     overwrite_description |-> NoneStr, use_mdb_description |-> FALSE]

RunLists ==
    << RunList(NameXmas, "one", "a.jpg", <<"1">>, TRUE),
       RunList(NameACol, "two", NonePath, NoneStr, FALSE) >>

\* No collection exists yet and no poster was uploaded.
NothingYet ==
    /\ \A n \in NameSet : collections[n] = Absent
    /\ \A c \in CollectionIds : posterCache[c] = NonePath

InitRun == InitOf({RunLists}, {RunSettings}, {FreshDates}) /\ NothingYet

SpecRun == InitRun /\ [][NextRun]_vars

\* run() goes on: a call of process_list returns, and the steps of the loop
\* that follow it are taken.
AtCall == phase = "lists" /\ last = NoPass /\ idx <= Len(lists)

FairRun == SpecRun /\ WF_vars(NextList) /\ WF_vars(Summary) /\ []<>(~AtCall)

\* A cycle over one list, with items of any age and with dates that do not
\* parse, and the default and a wider premiere bound.
RefreshSettings ==
    {[RunSettings EXCEPT !.max_days_since_premiered = d] : d \in {30, 45}}

CreatedDates == {Date(Today - 5), Date(Today - 11), BadDate}
PremiereDates == {Date(Today - 29), Date(Today - 40), NoDate, BadDate}

\* The first item has any dates, the others one of three kinds.
DateSets ==
    {f \in [LocalIds -> [DateCreated : CreatedDates, PremiereDate : PremiereDates]] :
        \A l \in LocalIds \ {LocalIdOf(1)} :
           f[l] \in {FreshDates[l],
                     [DateCreated |-> Date(Today - 5), PremiereDate |-> Date(Today - 40)],
                     [DateCreated |-> BadDate, PremiereDate |-> Date(Today - 29)]}}

RefreshLists == << RunList(NameACol, "two", NonePath, NoneStr, FALSE) >>

InitRefresh == InitOf({RefreshLists}, RefreshSettings, DateSets) /\ NothingYet

SpecRefresh == InitRefresh /\ [][NextRun]_vars

\* Either program, run() of src/modules/mdblist.py or main() of app.py, over
\* one list whose name begins with an article or with the letters of one.
BothSettings ==
    {RunSettings}
        \cup {[RunSettings EXCEPT !.impl = "app", !.hours_between_refresh = h] : h \in {0, 6}}

BothLists ==
    {RunList(name, "any", NonePath, <<"1">>, FALSE) : name \in {NameAlien, NameACol}}

InitBoth == InitOf([1 .. 1 -> BothLists], BothSettings, {FreshDates}) /\ NothingYet

SpecBoth == InitBoth /\ [][NextBoth]_vars

\* Either program over two lists whose collections exist: the first, whose
\* collection holds the whole library, may take items out of it, the second
\* asks for a date-based sort name (its dictionary holds True), with a prefix
\* or without.
DateSettings == {RunSettings, [RunSettings EXCEPT !.impl = "app", !.hours_between_refresh = 6]}

DateLists ==
    { << RunList(NameXmas, "one", NonePath, NoneStr, FALSE),
         [RunList(NameACol, "two", NonePath, prefix, FALSE) EXCEPT !.collection_sort_date = TRUE] >> :
      prefix \in {NoneStr, <<"1">>} }

InitDate ==
    /\ InitOf(DateLists, DateSettings, {FreshDates})
    /\ collections[NameXmas] = [exists |-> TRUE, members |-> LocalIds]
    /\ collections[NameACol].exists

SpecDate == InitDate /\ [][NextBoth]_vars

\* run() over one list with a description from the list service (any text of
\* quotes and a letter, or none), a description in the configuration (none,
\* empty, plain or quoted), and USE_MDB_COLLECTION_DESCRIPTION on or off.
QuoteChars == {"\"", "'", "x"}
Texts == UNION {[1 .. n -> QuoteChars] : n \in 0 .. MaxText}
OverwriteTexts == {NoneStr, <<>>, <<"O">>, <<"'", "O", "'">>}

DescriptionLists ==
    {[RunList(NameXmas, "one", NonePath, NoneStr, FALSE) EXCEPT
         !.description = d, !.overwrite_description = o, !.use_mdb_description = u] :
     d \in Texts \cup {NoneStr}, o \in OverwriteTexts, u \in BOOLEAN}

InitDescription == InitWith([1 .. 1 -> DescriptionLists]) /\ NothingYet

SpecDescription == InitDescription /\ [][Next]_vars

\* run() over one list given by its name and user, by two URLs, or by nothing:
\* a dictionary without source, or a section of the configuration file that
\* sets neither id, nor list_name and user_name, nor source, for which
\* process_hardcoded_lists gives the source "" (line 156).
SourceKinds ==
    {[source_kind |-> "none", urls |-> <<>>],
     [source_kind |-> "name", urls |-> <<>>],
     [source_kind |-> "urls", urls |-> <<"u1", "u2">>],
     [source_kind |-> "urls", urls |-> <<"">>]}

SourceLists ==
    {[name |-> NameXmas, frequency |-> DefaultFrequency, active_between |-> FALSE,
      source_kind |-> k.source_kind, urls |-> k.urls, id |-> "one", poster |-> NonePath,
      update_items_sort_names |-> FALSE, collection_sort_name |-> NoneStr,
      collection_sort_prefix |-> <<"1">>, collection_sort_date |-> FALSE,
      description |-> NoneStr, overwrite_description |-> NoneStr,
      use_mdb_description |-> FALSE] : k \in SourceKinds}

InitSource == InitWith([1 .. 1 -> SourceLists])

SpecSource == InitSource /\ [][Next]_vars

\* Either program, cycle after cycle over one list whose items get sort names.
TrackLists == << RunList(NameXmas, "one", NonePath, NoneStr, TRUE) >>

InitTrack == InitOf({TrackLists}, DateSettings, {FreshDates}) /\ NothingYet

SpecTrack == InitTrack /\ [][NextBoth]_vars

----------------------------------------------------------------------------
\* What the record of a call says.

InPass == last # NoPass
Config == lists[last.list]

CallsOf(p, ops) == {k \in 1 .. Len(p.calls) : p.calls[k].op \in ops}
OnlyCalls(p, ops) == \A k \in 1 .. Len(p.calls) : p.calls[k].op \in ops

ImdbIdsOf(items) == {x \in ImdbIds : x \in LibraryImdbIds /\ LocalIdOf(x) \in items}

\* The call got as far as the comparison of the list with the collection.
ReachedDiffer ==
    \/ last.outcome \in {"Done", "NothingToCreate", "CreateFailed"}
    \/ last.outcome = "Raised" /\ "ResolveRaise" \in last.faults

MutationOps == {"create_collection", "add_to_collection", "delete_from_collection"}

----------------------------------------------------------------------------
\* C1: in every call of process_list that compares the list with the
\* collection, the identifiers selected for addition are exactly D \ M and the
\* items selected for removal are exactly the local ids of M \ D (M empty when
\* the collection does not exist), so nothing selected for addition is in M and
\* nothing selected for removal is in D.
C1_AddAndRemoveAreTheSetDifferences ==
    ReachedDiffer =>
        LET D == last.D
            M == ImdbIdsOf(last.members0)
        IN  /\ ~last.existed => last.members0 = {}
            /\ last.missing = D \ M
            /\ last.remove_emby_ids = {LocalIdOf(x) : x \in M \ D}
            /\ last.missing \cap M = {}
            /\ \A item \in last.remove_emby_ids : ImdbOf(item) \notin D

C1_Witness ==
    /\ ReachedDiffer
    /\ last.missing \cap LibraryImdbIds # {}
    /\ last.remove_emby_ids # {}
    /\ last.D \ LibraryImdbIds # {}

\* C2: after a call that ran to its end with no failing call and a list whose
\* identifiers are all in the library, the collection exists and its members
\* are exactly the items of the list, whether it existed or was created.
C2_MembershipIsDesired ==
    (last.outcome = "Done" /\ last.faults = {} /\ last.D \subseteq LibraryImdbIds) =>
        /\ collections[last.name].exists
        /\ collections[last.name].members = {LocalIdOf(x) : x \in last.D}

C2_Witness ==
    /\ last.outcome = "Done" /\ last.faults = {} /\ last.D \subseteq LibraryImdbIds
    /\ last.created
    /\ Cardinality(last.D) >= 2

\* C3: a call that follows a complete, fault-free call for the same list with
\* the same identifiers selects no item to add and none to remove, and leaves
\* the membership as it was.
C3_SecondRunChangesNothing ==
    (last.repeat /\ last.outcome = "Done" /\ last.faults = {}) =>
        /\ last.add_emby_ids = <<>>
        /\ last.remove_emby_ids = {}
        /\ CallsOf(last, {"create_collection"}) = {}
        /\ \A k \in CallsOf(last, MutationOps) : last.calls[k].items = {}
        /\ collections[last.name].members = last.members0

C3_Witness ==
    /\ last.repeat /\ last.outcome = "Done" /\ last.faults = {}
    /\ Cardinality(last.members0) >= 2

\* C4: set_poster issues no set_image call when the configured path is the
\* cached one, issues exactly one, with the configured path, when a path is
\* configured and differs, and writes the cache only after a set_image that
\* reported success; every cached path is one whose upload succeeded.
C4_PosterCacheOnlyAfterSuccess ==
    /\ \A c \in CollectionIds : posterCache[c] # NonePath => posterCache[c] \in uploaded[c]
    /\ last.outcome = "Done" =>
          LET poster == Config.poster
              images == CallsOf(last, {"set_image"})
              cached == posterCache[CollectionIdOf(last.name)]
          IN  /\ poster = last.poster0 => images = {}
              /\ (poster \notin {NonePath, ""} /\ poster # last.poster0) =>
                    /\ Cardinality(images) = 1
                    /\ \A k \in images : last.calls[k].path = poster
              /\ cached # last.poster0 =>
                    /\ images # {}
                    /\ last.faults \cap {"ImageFalse", "ImageRaise"} = {}
                    /\ cached = poster
              /\ (last.faults \cap {"ImageFalse", "ImageRaise"} # {}) => cached = last.poster0

C4_Witness ==
    /\ last.outcome = "Done"
    /\ last.poster0 = "b.jpg"
    /\ Config.poster = "a.jpg"
    /\ CallsOf(last, {"set_image"}) # {}
    /\ posterCache[CollectionIdOf(last.name)] = "a.jpg"

\* C5: with frequency 0 and a collection that exists, a call of process_list
\* outside no window is skipped by the frequency filter: it issues no call
\* after the lookup and reaches no list resolution.
C5_FrequencyZeroNeverProcesses ==
    (InPass /\ last.draw # Unbound /\ Config.frequency = 0 /\ last.existed) =>
        /\ last.outcome = "SkippedFrequency"
        /\ OnlyCalls(last, {"get_collection_id"})
        /\ collections[last.name].members = last.members0

\* C6: with frequency 100 no call is skipped by the frequency filter, whatever
\* the draw: every call that comes to the filter goes on to list resolution.
C6_FrequencyHundredNeverSkips ==
    (InPass /\ Config.frequency = 100) =>
        /\ last.outcome # "SkippedFrequency"
        /\ last.draw # Unbound => CallsOf(last, {"get_list"}) # {}
        /\ (last.window # "outside" /\ "LookupRaise" \notin last.faults) => last.draw # Unbound

C6_Witness ==
    /\ InPass /\ Config.frequency = 100
    /\ last.existed
    /\ last.draw = RandHigh
    /\ last.outcome = "Done"

\* C7: a call that finds no collection is never skipped by the frequency
\* filter and samples with 100; a call that finds the collection samples with
\* the configured frequency, also after an earlier call created it.
C7_AbsentCollectionForcesFrequency ==
    (InPass /\ last.draw # Unbound) =>
        /\ ~last.existed => (last.frequency = 100 /\ last.outcome # "SkippedFrequency")
        /\ last.existed => last.frequency = Config.frequency

C7_Witness ==
    /\ last.outcome = "SkippedFrequency"
    /\ last.name \in createdByPass
    /\ last.frequency = 0

C9_InactiveAbsentDoesNothing ==
    [][(last = NoPass /\ last'.window = "outside" /\ ~last'.existed) =>
          /\ last'.calls = <<Call("get_collection_id", {}, last'.name, NonePath)>>
          /\ last'.outcome = "InactiveAbsent"
          /\ UNCHANGED <<newly_added, newly_removed, all_collections_ids,
                         collection_ids_with_custom_sorting, collections, posterCache>>]_vars

C9_Witness ==
    /\ last.window = "outside" /\ ~last.existed
    /\ last.outcome = "InactiveAbsent"

\* C10: with collection_sort_date set, a call that changed the membership
\* writes one ForcedSortName: "!", the minutes as digits, a space, and the base
\* name (collection_sort_name if given, else the name) without its leading
\* articles; no prefix is put before it.
IsDigit(c) == c \in {"0", "1", "2", "3", "4", "5", "6", "7", "8", "9"}

LeadingArticle(s) ==
    \E k \in 1 .. Len(UnwantedWords) : StartsWith(LowerStr(s), UnwantedWords[k] \o <<" ">>)

RECURSIVE OnlyArticles(_)
OnlyArticles(s) ==
    \/ s = <<>>
    \/ \E k \in 1 .. Len(UnwantedWords) :
          /\ StartsWith(LowerStr(s), UnwantedWords[k] \o <<" ">>)
          /\ OnlyArticles(DropFirst(s, Len(UnwantedWords[k]) + 1))

\* x is base without leading whole-word articles, at least one if base has one.
ArticleStripped(base, x) ==
    \E n \in 0 .. Len(base) :
       /\ x = DropFirst(base, n)
       /\ OnlyArticles(SubSeq(base, 1, n))
       /\ LeadingArticle(base) => n > 0

IsDateSortNameOf(text, base) ==
    /\ Len(text) >= 3
    /\ text[1] = "!"
    /\ \E k \in 2 .. Len(text) - 1 :
          /\ \A j \in 2 .. k : IsDigit(text[j])
          /\ text[k + 1] = " "
          /\ ArticleStripped(base, DropFirst(text, k + 1))

MetadataOps == {"set_image", "set_item_property:ForcedSortName", "set_item_property:Overview"}

\* The local items the desired identifiers not yet in the collection resolve to.
ResolvedItems == {LocalIdOf(x) : x \in last.missing \cap LibraryImdbIds}

\* The conversion of identifiers to local items was asked for and answered.
Resolved ==
    /\ CallsOf(last, {"get_items_with_imdb_id"}) # {}
    /\ "ResolveRaise" \notin last.faults

\* C11: with collection_sort_date false and a prefix configured, every call
\* that reaches the sort-name stage writes one ForcedSortName, the prefix, a
\* space and the base name without its leading articles, with no "!" and no
\* minutes before the name, whether the call changed the membership or not.
C11_PrefixSortNameWithoutDate ==
    (last.outcome = "Done" /\ ~Config.collection_sort_date
        /\ Config.collection_sort_prefix # NoneStr) =>
        LET writes == CallsOf(last, {"set_item_property:ForcedSortName"})
            prefix == Config.collection_sort_prefix
            base == IF Config.collection_sort_name = NoneStr
                    THEN last.name ELSE Config.collection_sort_name
        IN  /\ Cardinality(writes) = 1
            /\ \A k \in writes :
                  LET text == last.calls[k].text
                  IN  /\ StartsWith(text, prefix \o <<" ">>)
                      /\ ArticleStripped(base, DropFirst(text, Len(prefix) + 1))
                      /\ text[1] # "!"

C11_Witness ==
    /\ last.outcome = "Done" /\ ~Config.collection_sort_date
    /\ Config.collection_sort_prefix # NoneStr
    /\ last.items_added = 0 /\ last.items_removed = 0
    /\ last.name = NameACol /\ Config.collection_sort_name = NoneStr
    /\ \E k \in CallsOf(last, {"set_item_property:ForcedSortName"}) :
          last.calls[k].text = <<"1", " ", "C", "o", "l">>

\* C15: a call that finds no collection and whose identifiers resolve to no
\* local item issues no create, add or remove call and no metadata write, and
\* the collection is still absent; a create call is issued only by a call that
\* found no collection and resolved at least one item.
C15_NothingResolvedNothingCreated ==
    /\ (InPass /\ Resolved /\ ~last.existed /\ ResolvedItems = {}) =>
          /\ CallsOf(last, MutationOps \cup MetadataOps) = {}
          /\ ~collections[last.name].exists
          /\ last.name \notin createdByPass
    /\ (InPass /\ CallsOf(last, {"create_collection"}) # {}) =>
          /\ ~last.existed
          /\ Resolved
          /\ ResolvedItems # {}

C15_Witness ==
    /\ InPass /\ Resolved /\ ~last.existed /\ ResolvedItems = {}
    /\ last.D # {}
    /\ Config.collection_sort_prefix # NoneStr
    /\ ~collections[last.name].exists

----------------------------------------------------------------------------
\* What the record of a process_collection call says.

InRefresh == lastRefresh.collection # NoneId

\* The age of an item in days, by its DateCreated and by its PremiereDate (an
\* item without PremiereDate counts as premiered now).
AgeCreated(item) == Today - dates[item].DateCreated.day
AgePremiered(item) ==
    IF dates[item].PremiereDate.kind = "none" THEN 0 ELSE Today - dates[item].PremiereDate.day

DatesParse(item) ==
    /\ dates[item].DateCreated.kind = "date"
    /\ dates[item].PremiereDate.kind \in {"date", "none"}

C14_AtMostOneRefreshPerItem ==
    /\ \A a, b \in 1 .. Len(refreshes) : a # b => refreshes[a] # refreshes[b]
    /\ Range(refreshes) \subseteq Range(processed_items)
    /\ InRefresh => Range(lastRefresh.requested) \cap Range(lastRefresh.processed0) = {}

\* A later call meets, in another collection, an item that an earlier call
\* requested, and requests nothing.
C14_Witness ==
    /\ InRefresh
    /\ lastRefresh.collection = CollectionIdOf(NameACol)
    /\ lastRefresh.requested = <<>>
    /\ \E item \in Range(lastRefresh.examined) :
          /\ item \in Range(lastRefresh.processed0)
          /\ item \in Range(refreshes)
          /\ item \in collections[NameXmas].members

\* The lists of the calls of the current cycle, in order.
ListsOf(log) == [k \in 1 .. Len(log) |-> log[k].list]
AllLists == [k \in 1 .. Len(lists) |-> k]

\* C17: whatever call failed while a list was processed, run() goes on with
\* the next list: the calls of a cycle are those of the lists 1, 2, ... in
\* order, each list once; the step after a call with a failure is the step to
\* the next list; the summary and the sweep come only when every list had its
\* call; and after a call with a failure the cycle does come to its sweep, with
\* that call in its record.
C17_ListFailureDoesNotAbortCycle ==
    /\ [](/\ phase \in {"lists", "refresh", "sleep"}
          /\ ListsOf(cycleLog) = SubSeq(AllLists, 1, Len(cycleLog))
          /\ (phase = "lists" /\ InPass) => (idx = last.list /\ Len(cycleLog) = idx)
          /\ (phase = "lists" /\ ~InPass) => Len(cycleLog) = idx - 1
          /\ phase \in {"refresh", "sleep"} => ListsOf(cycleLog) = AllLists)
    /\ \A i \in 1 .. 2 :
          ((InPass /\ last.list = i /\ last.faults # {}) ~>
              (phase = "refresh" /\ \E k \in 1 .. Len(cycleLog) :
                                       cycleLog[k].list = i /\ cycleLog[k].failed))
    /\ [][(InPass /\ last.faults # {}) =>
             (last' = NoPass /\ idx' = idx + 1 /\ phase' = "lists")]_vars
    /\ [][phase' = "refresh" /\ phase # "refresh" =>
             (phase = "lists" /\ ListsOf(cycleLog) = AllLists /\ sweep' = 1
                /\ newly_added' = 0 /\ newly_removed' = 0)]_vars

C17_Witness ==
    /\ phase = "refresh"
    /\ sweep > 1
    /\ Len(cycleLog) = 2
    /\ cycleLog[1].failed /\ cycleLog[1].touched = NoneId
    /\ cycleLog[2].touched # NoneId

\* C20: when a cycle begins with its first list, the two counters are 0 and
\* the two lists of tracked collection ids are empty, and the sweep of a cycle
\* reads only collections that a call of this cycle tracked.
C20_AccumulatorsResetEachCycle ==
    /\ (phase = "lists" /\ idx = 1 /\ ~InPass) =>
          /\ newly_added = 0
          /\ newly_removed = 0
          /\ all_collections_ids = <<>>
          /\ collection_ids_with_custom_sorting = <<>>
    /\ InRefresh =>
          \E k \in 1 .. Len(cycleLog) : cycleLog[k].touched = lastRefresh.collection

\* The text of a sort-name write after the configured prefix and its space.
AfterPrefix(text) == DropFirst(text, Len(Config.collection_sort_prefix) + 1)

\* C12: in both programs the name a sort-name write carries after the prefix
\* is the base name without a leading whole-word article: "Alien" stays
\* "Alien", "A Col" becomes "Col".
C12_OnlyWholeWordArticlesStripped ==
    (InPass /\ Config.collection_sort_prefix # NoneStr /\ Config.collection_sort_name = NoneStr) =>
        \A k \in CallsOf(last, {"set_item_property:ForcedSortName"}) :
           LET text == last.calls[k].text
           IN  /\ StartsWith(text, Config.collection_sort_prefix \o <<" ">>)
               /\ ArticleStripped(last.name, AfterPrefix(text))
               /\ last.name = NameAlien => AfterPrefix(text) = NameAlien
               /\ last.name = NameACol => AfterPrefix(text) = <<"C", "o", "l">>

\* C16: a call that finds no collection and resolves k >= 1 items issues one
\* create call, with the first resolved item alone, before any add call; the
\* add call that follows carries the other k - 1 items and not the first.
C16_CreateWithFirstThenAddRest ==
    (InPass /\ Resolved /\ ~last.existed /\ ResolvedItems # {}) =>
        LET creates == CallsOf(last, {"create_collection"})
            adds == CallsOf(last, {"add_to_collection"})
        IN  /\ Range(last.resolved) = ResolvedItems
            /\ Len(last.resolved) = Cardinality(ResolvedItems)
            /\ Cardinality(creates) = 1
            /\ \A c \in creates :
                  /\ last.calls[c].items = {last.resolved[1]}
                  /\ \A a \in adds : c < a
            /\ Cardinality(adds) <= 1
            /\ "CreateRaise" \notin last.faults => Cardinality(adds) = 1
            /\ \A a \in adds :
                  /\ last.calls[a].items = ResolvedItems \ {last.resolved[1]}
                  /\ Cardinality(last.calls[a].items) = Len(last.resolved) - 1

C16_Witness ==
    /\ InPass /\ Resolved /\ ~last.existed
    /\ settings.impl = "app"
    /\ Len(last.resolved) = 2
    /\ last.created
    /\ last.outcome = "Done"
    /\ collections[last.name].members = ResolvedItems

\* C18: in main() of app.py an attempt with a failing connectivity check makes
\* the checks up to the failing one, processes no list and runs no sweep, and
\* goes to sleep; after the sleep the loop body starts over with the first
\* check; lists are processed and collections swept only in an attempt whose
\* three checks all passed.
C18_FailedPreCheckRestartsCycle ==
    /\ [](settings.impl = "app" =>
            /\ phase \in {"lists", "refresh"} =>
                  (checks.failed = 0 /\ checks.made = ChecksInOrder)
            /\ phase = "backoff" =>
                  (checks.failed # 0 /\ ~InPass /\ ~InRefresh /\ cycleLog = <<>>)
            /\ phase = "check" => (checks = NoChecks /\ ~InPass /\ ~InRefresh /\ cycleLog = <<>>))
    /\ [][(settings.impl = "app" /\ phase = "check") =>
             /\ checks'.made # <<>> /\ checks'.made[1] = "internet"
             /\ checks'.made = (IF checks'.failed = 0 THEN ChecksInOrder
                                ELSE SubSeq(ChecksInOrder, 1, checks'.failed))
             /\ phase' = (IF checks'.failed = 0 THEN "lists" ELSE "backoff")
             /\ idx' = 1
             /\ UNCHANGED <<passVars, refresherVars, cycleLog>>]_vars
    /\ [][phase = "backoff" =>
             (phase' = "check" /\ checks' = NoChecks
                /\ UNCHANGED <<passVars, refresherVars, cycleLog, idx>>)]_vars

C18_Witness ==
    /\ phase = "backoff"
    /\ checks.failed = 2
    /\ all_collections_ids # <<>>
    /\ processed_items # <<>>

\* C19: a call whose list fetch succeeds with no identifier issues no create,
\* add or remove call and no metadata write; the collection is as it was, with
\* all its members, or still absent.
C19_EmptyListChangesNothing ==
    (InPass /\ CallsOf(last, {"get_list"}) # {} /\ "FetchRaise" \notin last.faults
        /\ last.D = {}) =>
        /\ last.outcome = "EmptyList"
        /\ CallsOf(last, MutationOps \cup MetadataOps) = {}
        /\ collections[last.name].exists = last.existed
        /\ collections[last.name].members = last.members0

C19_Witness ==
    /\ InPass /\ CallsOf(last, {"get_list"}) # {} /\ last.faults = {} /\ last.D = {}
    /\ last.existed
    /\ Cardinality(last.members0) = 2
    /\ collections[last.name].members = last.members0

----------------------------------------------------------------------------
\* A step that is a whole call of process_list.
IsPass == last = NoPass /\ last' # NoPass

\* The set_image calls a call issued, and whether one of them failed.
Images(p) == CallsOf(p, {"set_image"})
ImageFailed(p) == p.faults \cap {"ImageFalse", "ImageRaise"} # {}

\* C21: a call whose set_image returns False or raises leaves the poster cache
\* as it was, so the cached path still differs from the configured one; while
\* no upload of the configured path has succeeded, every call that comes to
\* the metadata stage issues set_image with that path, once; and once an
\* upload of it has succeeded, no later call issues set_image.
C21_FailedUploadIsRetriedUntilSuccess ==
    /\ [][(IsPass /\ ImageFailed(last')) =>
             /\ posterCache' = posterCache
             /\ uploaded' = uploaded
             /\ posterCache'[CollectionIdOf(last'.name)] # lists[last'.list].poster]_vars
    /\ [][(IsPass /\ last'.outcome = "Done"
              /\ lists[last'.list].poster \notin {NonePath, ""}
              /\ lists[last'.list].poster \notin uploaded[CollectionIdOf(last'.name)]) =>
             /\ Cardinality(Images(last')) = 1
             /\ \A k \in Images(last') : last'.calls[k].path = lists[last'.list].poster
             /\ ~ImageFailed(last') =>
                   /\ posterCache'[CollectionIdOf(last'.name)] = lists[last'.list].poster
                   /\ lists[last'.list].poster \in uploaded'[CollectionIdOf(last'.name)]]_vars
    /\ [][(IsPass /\ lists[last'.list].poster \in uploaded[CollectionIdOf(last'.name)]) =>
             /\ Images(last') = {}
             /\ posterCache' = posterCache]_vars

\* A call created the collection and so came to set_poster, the cache is still
\* empty, and this later call uploads the poster with success.
C21_Witness ==
    /\ last.outcome = "Done"
    /\ last.name \in createdByPass /\ last.existed
    /\ Config.poster = "a.jpg"
    /\ last.poster0 = NonePath
    /\ Images(last) # {} /\ last.faults = {}
    /\ posterCache[CollectionIdOf(last.name)] = "a.jpg"

\* x is base without its one leading whole-word article, or base itself when
\* it begins with none.
SingleArticleStripped(base, x) ==
    IF LeadingArticle(base)
    THEN \E k \in 1 .. Len(UnwantedWords) :
            /\ StartsWith(LowerStr(base), UnwantedWords[k] \o <<" ">>)
            /\ x = DropFirst(base, Len(UnwantedWords[k]) + 1)
    ELSE x = base

\* The text of a sort-name write is a head (the prefix, or "!" and the
\* minutes), a space, and name.
SortNameCarries(text, name) ==
    /\ Len(text) >= Len(name) + 2
    /\ DropFirst(text, Len(text) - Len(name)) = name
    /\ text[Len(text) - Len(name)] = " "
    /\ LET head == SubSeq(text, 1, Len(text) - Len(name) - 1)
       IN  \/ head = Config.collection_sort_prefix
           \/ (head[1] = "!" /\ \A j \in 2 .. Len(head) : IsDigit(head[j]))

\* C22: the name a sort-name write carries is the base name without at most
\* one leading article: of "The A B" the write carries "A B".
C22_AtMostOneArticleStripped ==
    InPass =>
        \A k \in CallsOf(last, {"set_item_property:ForcedSortName"}) :
           LET base == IF Config.collection_sort_name = NoneStr
                       THEN last.name ELSE Config.collection_sort_name
           IN  \E n \in 0 .. Len(base) :
                  /\ SingleArticleStripped(base, DropFirst(base, n))
                  /\ SortNameCarries(last.calls[k].text, DropFirst(base, n))

\* The sort-name writes of a call, and those with a date-based name.
SortNameWrites(p) == CallsOf(p, {"set_item_property:ForcedSortName"})
DateWrites(p) == {k \in SortNameWrites(p) : p.calls[k].text[1] = "!"}

\* The call itself added or removed an item.
OwnChange(p) == p.items_added > 0 \/ p.items_removed > 0

\* C23: in both programs a call writes a date-based sort name only when date
\* sorting is asked for and the call itself added or removed an item, whatever
\* earlier calls of the cycle removed; and a call with no date-based name and
\* no prefix writes no sort name.
C23_DateSortNameOnlyOnOwnChange ==
    InPass =>
        /\ DateWrites(last) # {} => (Config.collection_sort_date /\ OwnChange(last))
        /\ (DateWrites(last) = {} /\ Config.collection_sort_prefix = NoneStr) =>
              SortNameWrites(last) = {}

\* A step in which the Refresher reads a collection or requests a refresh.
RefresherActs ==
    \/ refreshes' # refreshes
    \/ processed_items' # processed_items
    \/ (lastRefresh' # lastRefresh /\ lastRefresh' # NoRefresh)

\* C24: in both programs the Refresher reads a collection or requests a
\* refresh only when every list of the cycle had its call of process_list and
\* no call is under way, and such a step changes nothing a call of process_list
\* changes; the calls of a cycle are those of the lists 1, 2, ... in this
\* order, one at a time, and none of them touches the Refresher.
C24_SweepOnlyAfterAllLists ==
    /\ []((phase = "refresh" \/ InRefresh) => (~InPass /\ ListsOf(cycleLog) = AllLists))
    /\ [](InPass => (last.list = Len(cycleLog) /\ ~InRefresh))
    /\ [][RefresherActs =>
             /\ phase = "refresh" /\ ~InPass
             /\ ListsOf(cycleLog) = AllLists
             /\ UNCHANGED <<passVars, cycleLog>>]_vars
    /\ [][IsPass =>
             /\ phase = "lists" /\ ~InRefresh
             /\ last'.list = Len(cycleLog) + 1
             /\ ListsOf(cycleLog') = SubSeq(AllLists, 1, last'.list)
             /\ UNCHANGED refresherVars]_vars

C24_Witness ==
    /\ settings.impl = "app"
    /\ phase = "refresh"
    /\ InRefresh
    /\ lastRefresh.requested # <<>>
    /\ Len(cycleLog) = 2
    /\ cycleLog[1].touched # NoneId /\ cycleLog[2].touched # NoneId

\* No value occurs twice in a list.
NoDuplicates(ids) == \A a, b \in 1 .. Len(ids) : a # b => ids[a] # ids[b]

\* The call came to the stage that adds and removes items.
ReachedMutation(p) == CallsOf(p, {"add_to_collection"}) # {}

\* C25: in both programs, after a call that came to the mutation stage the
\* collection id is in all_collections_ids, and in
\* collection_ids_with_custom_sorting when update_items_sort_names is set; and
\* no id is twice in either list, after any number of calls and cycles.
C25_TrackedIdsOccurOnce ==
    /\ NoDuplicates(all_collections_ids)
    /\ NoDuplicates(collection_ids_with_custom_sorting)
    /\ (InPass /\ ReachedMutation(last)) =>
          /\ CollectionIdOf(last.name) \in Range(all_collections_ids)
          /\ Config.update_items_sort_names =>
                CollectionIdOf(last.name) \in Range(collection_ids_with_custom_sorting)

\* The members of the collection a process_collection call reads.
SweptMembers == collections[NameOfCollection(lastRefresh.collection)].members

\* The call's requests to the server all answered: the listing returned the
\* members and no refresh_item raised.
ServerAnswered == lastRefresh.raised \notin {"ItemsRaise", "ItemsNone", "refresh_item"}

\* C26: a call of process_collection whose requests the server answers comes
\* to every member of the collection, requests no refresh for an item one of
\* whose dates does not parse, and returns, so that the sweep goes on with the
\* next collection.
C26_BadDateSkipsTheItemOnly ==
    (InRefresh /\ ServerAnswered) =>
        /\ Range(lastRefresh.examined) = SweptMembers
        /\ \A item \in SweptMembers : ~DatesParse(item) => item \notin Range(lastRefresh.requested)
        /\ lastRefresh.raised = "no"
        /\ phase = "refresh"

\* s is the beginning of t.
IsPrefix(s, t) == Len(s) <= Len(t) /\ SubSeq(t, 1, Len(s)) = s

\* C27: every item a call of process_collection comes to is in
\* processed_items when the call ends, whatever became of it (dates that do not
\* parse, too old, refresh requested with or without success); after a call
\* that returned, every member of the collection is in it; and
\* processed_items only grows, by the items the call came to.
C27_ExaminedItemsAreProcessed ==
    /\ [](InRefresh =>
            /\ Range(lastRefresh.examined) \subseteq Range(processed_items)
            /\ lastRefresh.processed = processed_items
            /\ lastRefresh.raised = "no" => SweptMembers \subseteq Range(processed_items))
    /\ [][/\ IsPrefix(processed_items, processed_items')
          /\ processed_items' # processed_items =>
                /\ Range(processed_items') = Range(processed_items) \cup Range(lastRefresh'.examined)
                /\ NoDuplicates(processed_items')]_vars

C27_Witness ==
    /\ InRefresh
    /\ lastRefresh.raised = "no"
    /\ Cardinality(SweptMembers) = 2
    /\ \E item \in SweptMembers : dates[item].DateCreated.kind = "bad"
    /\ lastRefresh.failed # {}
    /\ SweptMembers \subseteq Range(processed_items)

\* C28: a call that comes to the mutation stage issues its remove call, with
\* the items selected for removal, after its add call, whether the add call
\* succeeded or failed; when the add call succeeded the items added are members
\* also after a failing remove call, and when the remove call succeeded the
\* items removed are gone also after a failing add call.
C28_AddAndRemoveAreIndependent ==
    (InPass /\ ReachedMutation(last)) =>
        LET adds == CallsOf(last, {"add_to_collection"})
            removes == CallsOf(last, {"delete_from_collection"})
        IN  /\ Cardinality(adds) = 1
            /\ Cardinality(removes) = 1
            /\ \A a \in adds, d \in removes :
                  a < d /\ last.calls[d].items = last.remove_emby_ids
            /\ last.faults \cap {"AddRaise", "AddNone", "AddPartial"} = {} =>
                  Range(last.add_emby_ids) \subseteq collections[last.name].members
            /\ last.faults \cap {"DeleteRaise", "DeleteNone"} = {} =>
                  last.remove_emby_ids \cap collections[last.name].members = {}

\* The Overview writes of a call.
OverviewWrites(p) == CallsOf(p, {"set_item_property:Overview"})

\* x is text, or text without its first and its last character.
IsTextOrInner(text, x) == x = text \/ x = SubSeq(text, 2, Len(text) - 1)

\* The source description is to be written; a description is configured.
SourceDescriptionApplies ==
    /\ Config.use_mdb_description
    /\ Config.description # NoneStr /\ Config.description # <<>>
    /\ Config.overwrite_description = NoneStr
OverwriteGiven ==
    Config.overwrite_description # NoneStr /\ Config.overwrite_description # <<>>

\* C29: a call that comes to the description stage writes Overview at most
\* once: the source description when its use is enabled, it is not empty and
\* no description is configured; else the configured description when it is
\* not empty; else nothing.  A configured description that is not empty is the
\* one written, whatever the source description is.
C29_DescriptionPolicy ==
    last.outcome = "Done" =>
        LET writes == OverviewWrites(last)
        IN  /\ Cardinality(writes) <= 1
            /\ SourceDescriptionApplies =>
                  /\ Cardinality(writes) = 1
                  /\ \A k \in writes : IsTextOrInner(Config.description, last.calls[k].text)
            /\ (~SourceDescriptionApplies /\ OverwriteGiven) =>
                  /\ Cardinality(writes) = 1
                  /\ \A k \in writes :
                        /\ IsTextOrInner(Config.overwrite_description, last.calls[k].text)
                        /\ last.calls[k].text = <<"O">>
            /\ (~SourceDescriptionApplies /\ ~OverwriteGiven) => writes = {}

C29_Witness ==
    /\ last.outcome = "Done"
    /\ Config.use_mdb_description
    /\ Config.description = <<"x", "x">>
    /\ Config.overwrite_description = <<"'", "O", "'">>
    /\ \E k \in OverviewWrites(last) : last.calls[k].text = <<"O">>

\* One of the two quote characters.
IsQuote(c) == c = "\"" \/ c = "'"

\* text begins and ends with the same quote character, at two places.
IsQuotedPair(text) ==
    /\ Len(text) >= 2
    /\ IsQuote(text[1])
    /\ text[Len(text)] = text[1]

\* C30: the text strip_quotes returns for a description is the description
\* without its first and its last character when these are two quote
\* characters of the same kind, and the description unchanged in every other
\* case.
C30_StripQuotesRemovesOnePair ==
    (last.outcome = "Done" /\ SourceDescriptionApplies) =>
        \A k \in OverviewWrites(last) :
           last.calls[k].text =
              (IF IsQuotedPair(Config.description)
               THEN SubSeq(Config.description, 2, Len(Config.description) - 1)
               ELSE Config.description)

\* C34: with collection_sort_date set, a call that creates the collection and
\* whose calls all succeed writes a date-based sort name, also when one item
\* resolves and the collection is created with it alone.
C34_CreationCountsAsChange ==
    (last.outcome = "Done" /\ last.created /\ last.faults = {}
        /\ Config.collection_sort_date) =>
        /\ Cardinality(DateWrites(last)) = 1
        /\ SortNameWrites(last) = DateWrites(last)

\* The call got as far as looking for the source of its list.
ReachedSource ==
    /\ last.outcome \notin {"None", "Running", "InactiveAbsent", "InactiveEmptied",
                            "SkippedFrequency"}
    /\ "LookupRaise" \notin last.faults

\* Neither id, nor list name and user name, nor source is given: the dictionary
\* has no source, or it is a section of the configuration file that sets none.
NoSourceGiven ==
    /\ last.list # 0
    /\ \/ Config.source_kind = "none"
       \/ Config.source_kind = "urls" /\ Config.urls = <<"">>

ListFetchOps == {"get_list", "find_list_id_by_name_and_user", "get_list_using_url"}

\* C31: a call for a list with none of the three sources, a section of the
\* configuration file that sets none of them included, ends with the outcome
\* NoSource, having asked the list service for nothing and changed nothing.
C31_NoSourceIsSkippedWithoutFetch ==
    (ReachedSource /\ NoSourceGiven) =>
        /\ last.outcome = "NoSource"
        /\ CallsOf(last, ListFetchOps) = {}
        /\ CallsOf(last, MutationOps) = {}

\* The list of the call is given by several URLs, and the fetch of one of them
\* failed: it raised, or it came back with nothing.
SeveralUrls == last.list # 0 /\ Config.source_kind = "urls" /\ Len(Config.urls) > 1

UrlFailed == last.faults \cap {"UrlRaise", "UrlNone"} # {}

\* The call did no more than look the collection up and fetch, and the
\* collection is as it was when the call began.
OnlyFetched ==
    /\ \A k \in 1 .. Len(last.calls) :
          last.calls[k].op \in {"get_collection_id", "get_list_using_url"}
    /\ collections[last.name].exists = last.existed
    /\ collections[last.name].members = last.members0

\* C32: when the fetch of one of several URLs fails, the call creates, adds and
\* removes nothing and writes no metadata: the collection is left as it was.
C32_OneFailedUrlFailsTheList ==
    (ReachedSource /\ SeveralUrls /\ UrlFailed) => OnlyFetched

\* The call resolved the identifiers its collection lacks.
ResolvedTheMissing == ReachedDiffer /\ "ResolveRaise" \notin last.faults

\* The items an earlier call left unadded that the list still holds and the
\* collection still lacks when this call begins.
StillOwed == {x \in last.owed0 : ImdbOf(x) \in last.D /\ x \notin last.members0}

\* C33: the items that an earlier call wanted in the collection and did not get
\* added are in the add set of the next call that resolves items, as far as the
\* list still holds them; and a call that goes through with no failing call
\* leaves the collection with the library's items of D, no more and no less.
C33_UnaddedItemsAreRetried ==
    /\ ResolvedTheMissing => StillOwed \subseteq Range(last.resolved)
    /\ (last.outcome = "Done" /\ last.faults = {}) =>
           collections[last.name].members = EmbyItemsWithImdbId(last.D)

C33_Witness ==
    /\ last.outcome = "Done"
    /\ last.faults = {}
    /\ last.existed
    /\ StillOwed # {}
    /\ StillOwed \subseteq collections[last.name].members
    /\ collections[last.name].members = EmbyItemsWithImdbId(last.D)

====
